---- MODULE Spec2Model ----
(***************************************************************************)
(* A model of toasty's cascade engine (toasty/merge.py, toasty/pyramid.py): *)
(* the quadtree address algebra, the per-tile merge step, the serial        *)
(* cascade and the dispatcher/worker-pool cascade with its two queues and   *)
(* the readiness map.                                                       *)
(*                                                                          *)
(* Values.  A tile position Pos(n, x, y) is the tuple <<n, x, y>>.  What    *)
(* pio.read_image returns is None (the tuple <<>>) or a tile content: a     *)
(* base-layer tile is the 1-tuple <<id>>, a merged tile is the 4-tuple of   *)
(* the quadrants of the 512x512 buffer the merger was given, in the order   *)
(* top-left, top-right, bottom-left, bottom-right.  A quadrant is a tile    *)
(* content, the absent-value sentinel, or uninitialised memory.             *)
(***************************************************************************)
EXTENDS Integers, Sequences, FiniteSets, TLC

\* ------------------------------------------------------------------ bounds

\* The deepest start depth of a cascade without a tile filter.
MaxStart == 2
\* The deepest start depth of a cascade with a tile filter.
MaxFiltStart == 3
\* The largest value of the parallel argument (the number of workers).
MaxParallel == 2
\* The largest number of tiles a tile filter selects at depth start-1.
MaxSel == 2
\* The deepest address is_subtile is called on.
MaxCallDepth == 2
\* The deepest pyramid depth2tiles is asked about.
MaxTilesDepth == 10
\* The largest finite value of the model's float32, in units of 1/12.
MaxFloat == 1200

\* The transform is run on pyramids of depth up to MaxXfDepth.
MaxXfDepth == 1

\* publish_todos is called up to MaxPublishRuns times on one out_todo.
MaxPublishRuns == 2

\* ---------------------------------------------------------------- pyramid

Pos(n, x, y) == <<n, x, y>>

Pow2(k) == 2 ^ k

\* The valid addresses of depth n: 0 <= x, y < 2^n.
Level(n) == {Pos(n, x, y) : x \in 0 .. Pow2(n) - 1, y \in 0 .. Pow2(n) - 1}

MaxDepth == IF MaxStart > MaxFiltStart THEN MaxStart ELSE MaxFiltStart

AllPos == UNION {Level(n) : n \in 0 .. MaxDepth}

\* depth2tiles counting one level too few.
depth2tiles_one_level_short(depth) == ((4 ^ depth) - 1) \div 3

depth2tiles(depth) == ((4 ^ (depth + 1)) - 1) \div 3

\* What a call gives back: the value it returns, or the exception it
\* raises (val then carries nothing).
Returned(v) == [exc |-> "", val |-> v]
Raised(e) == [exc |-> e, val |-> FALSE]

\* is_subtile(deeper_pos, shallower_pos).  For deeper_pos.n > shallower_pos.n
\* the code evaluates _parent(deeper_pos), and pyramid.py defines and
\* imports no name _parent (the function of that module is pos_parent): the
\* call raises NameError before it recurses.
is_subtile(deeper_pos, shallower_pos) ==
    IF deeper_pos[1] < shallower_pos[1] THEN Raised("ValueError")
    ELSE IF deeper_pos[1] = shallower_pos[1]
    THEN Returned(deeper_pos[2] = shallower_pos[2] /\ deeper_pos[3] = shallower_pos[3])
    ELSE Raised("NameError")

\* pos_parent(pos) for pos.n >= 1: <<parent, x_index, y_index>>.  For
\* pos.n < 1 the code raises ValueError, modelled as the value Raise.
Raise == <<"ValueError">>

\* pos_parent returning the two child indices in the other order.
pos_parent_swapped(pos) ==
    IF pos[1] < 1 THEN Raise
    ELSE <<Pos(pos[1] - 1, pos[2] \div 2, pos[3] \div 2), pos[3] % 2, pos[2] % 2>>

\* pos_parent returning the horizontal index for both indices.
pos_parent_same_index(pos) ==
    IF pos[1] < 1 THEN Raise
    ELSE <<Pos(pos[1] - 1, pos[2] \div 2, pos[3] \div 2), pos[2] % 2, pos[2] % 2>>

pos_parent(pos) ==
    IF pos[1] < 1 THEN Raise
    ELSE <<Pos(pos[1] - 1, pos[2] \div 2, pos[3] \div 2), pos[2] % 2, pos[3] % 2>>

\* The four children of a position, in the index order 2*y_index + x_index.
pos_children(pos) ==
    << Pos(pos[1] + 1, 2 * pos[2],     2 * pos[3]),
       Pos(pos[1] + 1, 2 * pos[2] + 1, 2 * pos[3]),
       Pos(pos[1] + 1, 2 * pos[2],     2 * pos[3] + 1),
       Pos(pos[1] + 1, 2 * pos[2] + 1, 2 * pos[3] + 1) >>

ChildSet(pos) == {pos_children(pos)[i] : i \in 1 .. 4}

\* The post-order walk below one tile: the four subtrees in child order,
\* then the tile itself.
RECURSIVE postfix_pos(_, _)
postfix_pos(depth, pos) ==
    IF pos[1] < depth
    THEN postfix_pos(depth, pos_children(pos)[1])
           \o postfix_pos(depth, pos_children(pos)[2])
           \o postfix_pos(depth, pos_children(pos)[3])
           \o postfix_pos(depth, pos_children(pos)[4])
           \o <<pos>>
    ELSE <<pos>>

\* generate_pos(depth) for every depth the model asks for, worked out once.
GeneratePosTable == [d \in -1 .. MaxDepth |-> postfix_pos(d, Pos(0, 0, 0))]

generate_pos(depth) == GeneratePosTable[depth]

\* get_parents keeping the parent of one of the tiles only.
get_parents_of_one(tiles) ==
    IF tiles = {} THEN {} ELSE {pos_parent(CHOOSE t \in tiles : TRUE)[1]}

\* get_parents(tiles, get_all_ancestors=False): the set of direct parents.
get_parents(tiles) == {pos_parent(t)[1] : t \in tiles}

\* The strict ancestors of a set of tiles of one depth >= 1, root included.
RECURSIVE Ancestors(_)
Ancestors(tiles) ==
    IF tiles = {} \/ Pos(0, 0, 0) \in tiles THEN {}
    ELSE get_parents(tiles) \cup Ancestors(get_parents(tiles))

\* -------------------------------------------------------- tile contents

None == <<>>
\* The absent-value sentinel of the tile's mode (NaN, or alpha = 0).
Sentinel == <<0>>
\* What np.empty may hold besides: memory left by an earlier allocation.
Junk == <<-1>>
Uninit == {Sentinel, Junk}

\* The content of the base-layer tile at a position: one id per address.
LeafContent(pos) == <<1 + pos[2] + Pow2(pos[1]) * pos[3]>>

\* Quadrants of the 512x512 buffer as <<row half, column half>>, 0 = [:256],
\* 1 = [256:]; entry i is the quadrant of child i.
SLICES_MATCHING_PARITY == << <<0, 0>>, <<0, 1>>, <<1, 0>>, <<1, 1>> >>

SLICES_OPPOSITE_PARITY == << <<1, 0>>, <<1, 1>>, <<0, 0>>, <<0, 1>> >>

\* The table both the serial cascade and a worker pick from the store's
\* vertical parity sign.
SelectSlices(sign) ==
    IF sign = 1 THEN SLICES_OPPOSITE_PARITY ELSE SLICES_MATCHING_PARITY

\* A worker that takes the matching table whatever the sign.
worker_slices_sign_ignored(sign) == SLICES_MATCHING_PARITY

\* The table _mp_cascade_worker picks, by the same test.
worker_slices(sign) ==
    IF sign = 1 THEN SLICES_OPPOSITE_PARITY ELSE SLICES_MATCHING_PARITY

\* The rows or columns of the 512 x 512 buffer that slice(None, 256), half
\* 0, and slice(256, None), half 1, select.
SliceRange(half) == IF half = 0 THEN 0 .. 255 ELSE 256 .. 511

QuadIndex(sl) == 2 * sl[1] + sl[2] + 1

\* mode.make_maskable_buffer(512, 512): np.empty, every quadrant holds g.
make_maskable_buffer(g) == <<g, g, g, g>>

\* Image.clear(): every pixel becomes the sentinel.
clear(buf) == [i \in 1 .. 4 |-> Sentinel]

\* subimg.update_into_maskable_buffer(buf, :, :, *slidx): the quadrant
\* slidx of buf becomes the sub-image, the rest of buf is left as it is.
update_into_maskable_buffer(subimg, buf, slidx) ==
    [buf EXCEPT ![QuadIndex(slidx)] = subimg]

\* AssembleBuffer without the buf.clear() after the allocation.
AssembleBufferNoClear(imgs, slices, g) ==
    LET fresh == make_maskable_buffer(g)
        writers(q) == {i \in 1 .. 4 : imgs[i] # None /\ QuadIndex(slices[i]) = q}
        last(q) == CHOOSE i \in writers(q) : \A j \in writers(q) : j <= i
    IN  [q \in 1 .. 4 |->
            IF writers(q) = {} THEN fresh[q]
            ELSE update_into_maskable_buffer(imgs[last(q)], fresh, slices[last(q)])[q]]

\* The buffer _process_tile hands to the merger.  It is always called with
\* buf = None (the callers' buf is never reassigned), so the first present
\* child allocates the buffer and clears it; then every present child i, in
\* the order of zip(slices, imgs), is written into slices[i].
AssembleBuffer(imgs, slices, g) ==
    LET fresh == clear(make_maskable_buffer(g))
        writers(q) == {i \in 1 .. 4 : imgs[i] # None /\ QuadIndex(slices[i]) = q}
        last(q) == CHOOSE i \in writers(q) : \A j \in writers(q) : j <= i
    IN  [q \in 1 .. 4 |->
            IF writers(q) = {} THEN fresh[q]
            ELSE update_into_maskable_buffer(imgs[last(q)], fresh, slices[last(q)])[q]]

\* The merger is a parameter of the cascade; the model takes the most
\* discriminating one, which keeps all four quadrants apart.
merger(buf) == buf

\* pio.read_image(pos, default="none"): None where no tile is stored.
read_image(st, pos) == IF pos \in DOMAIN st THEN st[pos] ELSE None

\* _process_tile without the early return: the buffer is allocated before
\* the loop and a tile is merged and written whatever the children are.
process_tile_no_skip(st, pos, slices, g, rf, wf) ==
    LET children == pos_children(pos)
        imgs == [i \in 1 .. 4 |-> read_image(st, children[i])]
    IN  IF (\E i \in 1 .. 4 : children[i] \in rf) \/ pos \in wf
        THEN [status |-> "raised", store |-> st, merges |-> 0, io |-> 1]
        ELSE [status |-> "ok", merges |-> 1, io |-> 5,
              store |-> [st EXCEPT ![pos] = merger(AssembleBuffer(imgs, slices, g))]]

\* _process_tile(pos, buf, pio, slices, merger) on the store st.  rf and wf
\* are the addresses whose read, respectively write, raises in the store;
\* g is what freshly allocated memory holds.  status is "raised" when the
\* store raised, "skipped" when all four children are absent, else "ok";
\* merges counts the calls of the merger, io those of read_image and
\* write_image.
process_tile(st, pos, slices, g, rf, wf) ==
    LET children == pos_children(pos)
        imgs == [i \in 1 .. 4 |-> read_image(st, children[i])]
    IN  IF \E i \in 1 .. 4 : children[i] \in rf
        THEN [status |-> "raised", store |-> st, merges |-> 0,
              io |-> CHOOSE i \in 1 .. 4 :
                        children[i] \in rf /\ \A j \in 1 .. i - 1 : children[j] \notin rf]
        ELSE IF \A i \in 1 .. 4 : imgs[i] = None
        THEN [status |-> "skipped", store |-> st, merges |-> 0, io |-> 4]
        ELSE IF pos \in wf
        THEN [status |-> "raised", store |-> st, merges |-> 1, io |-> 5]
        ELSE [status |-> "ok", merges |-> 1, io |-> 5,
              store |-> [st EXCEPT ![pos] = merger(AssembleBuffer(imgs, slices, g))]]

\* ------------------------------------------------------- readiness masks

HasBit(flags, b) == (flags \div Pow2(b)) % 2 = 1

\* flags |= 1 << b
SetBit(flags, b) == IF HasBit(flags, b) THEN flags ELSE flags + Pow2(b)

\* readiness = {}
EmptyMap == [p \in {} |-> 0]

\* readiness.get(pos, 0)
GetFlags(rd, pos) == IF pos \in DOMAIN rd THEN rd[pos] ELSE 0

\* readiness[pos] = flags
PutFlags(rd, pos, flags) ==
    [p \in DOMAIN rd \cup {pos} |-> IF p = pos THEN flags ELSE rd[p]]

\* readiness.pop(pos)
PopFlags(rd, pos) == [p \in DOMAIN rd \ {pos} |-> rd[p]]

\* flags with the bit of every child in cs set: what the inner loop of
\* _initiate_readiness_state leaves in readiness[parent].
RECURSIVE SetBitsOf(_, _)
SetBitsOf(flags, cs) ==
    IF cs = {} THEN flags
    ELSE LET c == CHOOSE c \in cs : TRUE
         IN  SetBitsOf(SetBit(flags, 2 * (c[3] % 2) + (c[2] % 2)), cs \ {c})

\* _initiate_readiness_state without the recursive call: only the direct
\* parents are seeded.
initiate_readiness_state_one_generation(tiles_to_process, rd) ==
    IF tiles_to_process = {} \/ Pos(0, 0, 0) \in tiles_to_process THEN rd
    ELSE LET parents == get_parents(tiles_to_process)
             missing(p) == ChildSet(p) \ tiles_to_process
             touched == {p \in parents : missing(p) # {}}
         IN  [p \in DOMAIN rd \cup touched |->
                 IF p \in touched
                 THEN SetBitsOf(GetFlags(rd, p), missing(p))
                 ELSE rd[p]]

\* _initiate_readiness_state(tiles_to_process, readiness): the readiness
\* map it leaves.
RECURSIVE initiate_readiness_state(_, _)
initiate_readiness_state(tiles_to_process, rd) ==
    IF tiles_to_process = {} \/ Pos(0, 0, 0) \in tiles_to_process THEN rd
    ELSE LET parents == get_parents(tiles_to_process)
             missing(p) == ChildSet(p) \ tiles_to_process
             touched == {p \in parents : missing(p) # {}}
             rd1 == [p \in DOMAIN rd \cup touched |->
                        IF p \in touched
                        THEN SetBitsOf(GetFlags(rd, p), missing(p))
                        ELSE rd[p]]
         IN  initiate_readiness_state(parents, rd1)

\* ------------------------------------------------------- tile filtering

FilterSeq(seq, keep) == SelectSeq(seq, LAMBDA p : p \in keep)

\* generate_tiles_filtered(depth, tile_filter, bottom_only): the positions
\* of the tiles it yields, for a filter that selects the set s of tiles at
\* the bottom depth.  The root tile is never yielded.
generate_tiles_filtered(depth, s, bottom_only) ==
    IF bottom_only THEN FilterSeq(generate_pos(depth), s)
    ELSE FilterSeq(generate_pos(depth), (s \cup Ancestors(s)) \ {Pos(0, 0, 0)})

count_tiles_matching_filter(depth, s, bottom_only) ==
    Len(generate_tiles_filtered(depth, s, bottom_only))

\* ------------------------------------------------------------------ state

VARIABLES
    \* the arguments of cascade_images and the store it is given
    start,          \* the start depth
    parallel,       \* the resolved parallelism
    filtered,       \* whether a tile_filter is given
    sel,            \* the tiles of depth start-1 the filter selects
    sign,           \* pio.get_default_vertical_parity_sign()
    rfail,          \* addresses whose read_image raises
    wfail,          \* addresses whose write_image raises
    store0,         \* the store when cascade_images is called
    \* the program
    store,          \* address -> tile content or None
    cpc,            \* where cascade_images (serial loop or dispatcher) is
    sidx,           \* serial cascade: index of the next tile of the loop
    queues,         \* whether ready_queue and done_queue exist
    ready_queue,
    done_queue,
    done_event,
    readiness,      \* the dispatcher's dict: parent -> flags
    wpc,            \* worker -> where it is
    wpos,           \* worker -> the position it holds
    progress,       \* what progress.update has counted
    total,          \* the total given to tqdm
    \* history
    log,            \* serial cascade: the positions processed, in order
    nproc,          \* address -> times _process_tile returned for it
    nready,         \* address -> times it was put on ready_queue
    reported,       \* addresses the dispatcher took from done_queue
    nmerge,         \* calls of the merger
    nio,            \* calls of read_image and write_image
    \* a library function called on its own
    call,           \* <<function name, arguments, outcome>> of the last call
    \* the other programs of the package
    xf,             \* a run of transform._float_to_rgba_parallel
    pub             \* runs of PipelineManager.publish_todos

inputs == <<start, parallel, filtered, sel, sign, rfail, wfail, store0>>
parstate == <<queues, ready_queue, done_queue, done_event, readiness, wpc, wpos, nready, reported>>
cascade == <<inputs, store, cpc, sidx, parstate, progress, total, log, nproc, nmerge, nio>>
vars == <<cascade, call, xf, pub>>

Root == Pos(0, 0, 0)

Workers == 1 .. MaxParallel

\* No float-to-RGBA transform is running.
XfIdle ==
    [pc |-> "idle", depth |-> 0, parallel |-> 1, idx |-> 1, queue |-> <<>>,
     done_event |-> FALSE, wpc |-> [w \in Workers |-> "unstarted"],
     wpos |-> [w \in Workers |-> Pos(0, 0, 0)], ndone |-> <<>>]

\* publish_todos has not been called.
PubIdle ==
    [pc |-> "idle", runs |-> 0, todo |-> {}, dirs |-> {}, pending |-> <<>>,
     dirpath |-> <<>>, filenames |-> <<>>, store |-> {}, log |-> <<>>,
     tree |-> {}, reversed |-> FALSE]

\* The stores a cascade from depth s is started on hold tiles at depth s
\* only: no tile at all, or every tile outside the children of the first
\* tile of depth s-1 and a subset of those children (any subset without a
\* tile filter; all or none of them with one).
StoreWith(present) ==
    [p \in AllPos |-> IF p \in present THEN LeafContent(p) ELSE None]

FullStore(s) == StoreWith(Level(s))

StoreChoices(s, f) ==
    IF s = 0 THEN {StoreWith({}), StoreWith({Root})}
    ELSE LET first == ChildSet(Pos(s - 1, 0, 0))
         IN  {StoreWith({})} \cup
             {StoreWith(a \cup (Level(s) \ first)) :
                 a \in IF f THEN {{}, first} ELSE SUBSET first}

\* The tiles of depth d a filter's selection is drawn from: two siblings
\* and the three other corners of the level.
Candidates(d) ==
    LET m == Pow2(d) - 1
    IN  {Pos(d, 0, 0), Pos(d, 1, 0), Pos(d, m, 0), Pos(d, 0, m), Pos(d, m, m)}

\* The selections of a tile filter: at most MaxSel tiles of depth start-1.
\* generate_tiles_filtered never yields the root tile.
SelChoices(s) ==
    IF s < 2 THEN {{}}
    ELSE {t \in SUBSET Candidates(s - 1) : Cardinality(t) <= MaxSel}

\* The store failures considered: one read that raises, or one write that
\* raises.
FaultChoices(s) ==
    IF s < 1 THEN {}
    ELSE {<<{Pos(s, 0, 0)}, {}>>, <<{}, {Pos(s - 1, 0, 0)}>>, <<{}, {Root}>>}

NoFault == rfail = {} /\ wfail = {}

InitInputs ==
    /\ filtered \in BOOLEAN
    /\ start \in 0 .. (IF filtered THEN MaxFiltStart ELSE MaxStart)
    /\ parallel \in 1 .. MaxParallel
    /\ \/ /\ sel \in (IF filtered THEN SelChoices(start) ELSE {{}})
          /\ \/ /\ sign \in {-1, 1}
                /\ store0 \in StoreChoices(start, filtered)
                /\ NoFault
             \/ /\ sign = -1
                /\ store0 = FullStore(start)
                /\ \E f \in FaultChoices(start) : rfail = f[1] /\ wfail = f[2]
       \/ \* a selection of more tiles than done_queue has room for
          /\ filtered /\ start >= 2
          /\ sel = Candidates(start - 1)
          /\ sign = -1
          /\ store0 = FullStore(start)
          /\ NoFault

InitProgram ==
    /\ store = store0
    /\ cpc = "call"
    /\ sidx = 1
    /\ queues = FALSE
    /\ ready_queue = <<>>
    /\ done_queue = <<>>
    /\ done_event = FALSE
    /\ readiness = EmptyMap
    /\ wpc = [w \in Workers |-> "unstarted"]
    /\ wpos = [w \in Workers |-> Root]
    /\ progress = 0
    /\ total = 0
    /\ log = <<>>
    /\ nproc = [p \in AllPos |-> 0]
    /\ nready = [p \in AllPos |-> 0]
    /\ reported = {}
    /\ nmerge = 0
    /\ nio = 0

\* No library function has been called on its own.
NoCall == <<"none", <<>>, <<>>>>

Init == InitInputs /\ InitProgram /\ call = NoCall /\ xf = XfIdle /\ pub = PubIdle

\* ------------------------------------------------------- cascade_images

\* The total without the root tile.
TotalWithoutRoot(s, f, S) ==
    IF ~f THEN depth2tiles(s - 1) - 1
    ELSE count_tiles_matching_filter(s - 1, S, FALSE)

\* total / n_todo: the number of tiles the progress bar is told to expect.
Total(s, f, S) ==
    IF ~f THEN depth2tiles(s - 1)
    ELSE count_tiles_matching_filter(s - 1, S, FALSE) + 1

\* The seeding without the test of the depth: every address that
\* generate_pos yields is put.
SeedReadyEveryDepth(s, f, S) ==
    IF ~f THEN generate_pos(s - 1)
    ELSE generate_tiles_filtered(s - 1, S, TRUE)

\* What _cascade_images_parallel puts on ready_queue before it starts the
\* workers, in the order of the puts.
SeedReady(s, f, S) ==
    IF ~f THEN SelectSeq(generate_pos(s - 1), LAMBDA p : p[1] = s - 1)
    ELSE generate_tiles_filtered(s - 1, S, TRUE)

\* The readiness map before the workers start.
SeedReadiness(f, S) ==
    IF ~f THEN EmptyMap ELSE initiate_readiness_state(S, EmptyMap)

CountPuts(cnt, seq) ==
    [p \in DOMAIN cnt |-> cnt[p] + Cardinality({i \in 1 .. Len(seq) : seq[i] = p})]

\* cascade_images without the check of start.
CascadeImagesNoGuard ==
    /\ cpc = "call"
    /\ IF parallel > 1
       THEN /\ cpc' = "spawn"
            /\ total' = Total(start, filtered, sel)
            /\ queues' = TRUE
            /\ \E seed \in {SeedReady(start, filtered, sel)} :
                  /\ ready_queue' = seed
                  /\ nready' = CountPuts(nready, seed)
            /\ readiness' = SeedReadiness(filtered, sel)
       ELSE /\ cpc' = "serial"
            /\ total' = Total(start, filtered, sel)
            /\ UNCHANGED <<queues, ready_queue, readiness, nready>>
    /\ UNCHANGED <<call, xf, pub, inputs, store, sidx, done_queue, done_event, wpc, wpos,
                   reported, progress, log, nproc, nmerge, nio>>

\* cascade_images up to the serial loop, or through the seeding of
\* _cascade_images_parallel (the queues, the event, ready_queue, readiness).
CascadeImages ==
    /\ cpc = "call"
    /\ IF start < 1
       THEN /\ cpc' = "returned"
            /\ UNCHANGED <<total, queues, ready_queue, readiness, nready>>
       ELSE IF parallel > 1
       THEN /\ cpc' = "spawn"
            /\ total' = Total(start, filtered, sel)
            /\ queues' = TRUE
            /\ \E seed \in {SeedReady(start, filtered, sel)} :
                  /\ ready_queue' = seed
                  /\ nready' = CountPuts(nready, seed)
            /\ readiness' = SeedReadiness(filtered, sel)
       ELSE /\ cpc' = "serial"
            /\ total' = Total(start, filtered, sel)
            /\ UNCHANGED <<queues, ready_queue, readiness, nready>>
    /\ UNCHANGED <<call, xf, pub, inputs, store, sidx, done_queue, done_event, wpc, wpos,
                   reported, progress, log, nproc, nmerge, nio>>

\* ------------------------------------------------------- serial cascade

\* The loop walking generate_pos(start) instead of generate_pos(start - 1).
SerialSeqFromStart ==
    IF filtered THEN generate_tiles_filtered(start - 1, sel, FALSE)
    ELSE generate_pos(start)

\* The positions the loop of _cascade_images_serial visits.
SerialSeq ==
    IF filtered THEN generate_tiles_filtered(start - 1, sel, FALSE)
    ELSE generate_pos(start - 1)

\* One _process_tile call of the serial cascade on pos; last tells whether
\* the function returns after it.
SerialProcess(pos, last) ==
    \E g \in Uninit :
        \E r \in {process_tile(store, pos, SelectSlices(sign), g, rfail, wfail)} :
            /\ nio' = nio + r.io
            /\ nmerge' = nmerge + r.merges
            /\ IF r.status = "raised"
               THEN /\ cpc' = "raised"
                    /\ UNCHANGED <<store, sidx, progress, log, nproc>>
               ELSE /\ store' = r.store
                    /\ sidx' = sidx + 1
                    /\ progress' = progress + 1
                    /\ log' = Append(log, pos)
                    /\ nproc' = [nproc EXCEPT ![pos] = @ + 1]
                    /\ cpc' = IF last THEN "returned" ELSE "serial"
            /\ UNCHANGED <<call, xf, pub, inputs, parstate, total>>

\* One iteration of the for loop.
SerialLoop ==
    /\ cpc = "serial"
    /\ \E seq \in {SerialSeq} :
          /\ sidx <= Len(seq)
          /\ SerialProcess(seq[sidx], ~filtered /\ sidx = Len(seq))

\* The filtered cascade returning after the loop, the root left out.
SerialRootLeftOut ==
    /\ cpc = "serial"
    /\ filtered
    /\ sidx > Len(SerialSeq)
    /\ cpc' = "returned"
    /\ UNCHANGED <<call, xf, pub, inputs, store, sidx, parstate, progress, total, log,
                   nproc, nmerge, nio>>

\* With a filter: the root tile, after the loop.
SerialRoot ==
    /\ cpc = "serial"
    /\ filtered
    /\ sidx > Len(SerialSeq)
    /\ SerialProcess(Root, TRUE)

\* ----------------------------------------------------- parallel cascade

Started(w) == w <= parallel

\* The loop that creates and starts the worker processes.
StartWorkers ==
    /\ cpc = "spawn"
    /\ wpc' = [w \in Workers |-> IF Started(w) THEN "get" ELSE "unstarted"]
    /\ cpc' = "dispatch"
    /\ UNCHANGED <<call, xf, pub, inputs, store, sidx, queues, ready_queue, done_queue,
                   done_event, readiness, wpos, nready, reported, progress,
                   total, log, nproc, nmerge, nio>>

\* Dispatch putting the ready parent without removing its entry.
DispatchKeepEntry(rd, pos) ==
    LET pp == pos_parent(pos)
        ppos == pp[1]
        bit_num == 2 * pp[3] + pp[2]
        flags == SetBit(GetFlags(rd, ppos), bit_num)
    IN  [readiness |-> PutFlags(rd, ppos, flags),
         put |-> IF flags = 15 THEN <<ppos>> ELSE <<>>, raised |-> FALSE]

\* Dispatch putting the ready parent twice.
DispatchPutTwice(rd, pos) ==
    LET pp == pos_parent(pos)
        ppos == pp[1]
        bit_num == 2 * pp[3] + pp[2]
        flags == SetBit(GetFlags(rd, ppos), bit_num)
    IN  IF flags = 15
        THEN [readiness |-> PopFlags(rd, ppos), put |-> <<ppos, ppos>>, raised |-> FALSE]
        ELSE [readiness |-> PutFlags(rd, ppos, flags), put |-> <<>>, raised |-> FALSE]

\* Dispatch with the parent declared ready at the mask 0b0111.
DispatchAtSeven(rd, pos) ==
    LET pp == pos_parent(pos)
        ppos == pp[1]
        bit_num == 2 * pp[3] + pp[2]
        flags == SetBit(GetFlags(rd, ppos), bit_num)
    IN  IF flags = 7
        THEN [readiness |-> PopFlags(rd, ppos), put |-> <<ppos>>, raised |-> FALSE]
        ELSE [readiness |-> PutFlags(rd, ppos, flags), put |-> <<>>, raised |-> FALSE]

\* Dispatch with the bit number x_index + y_index: two children share a bit.
DispatchSharedBit(rd, pos) ==
    LET pp == pos_parent(pos)
        ppos == pp[1]
        bit_num == pp[3] + pp[2]
        flags == SetBit(GetFlags(rd, ppos), bit_num)
    IN  IF flags = 15
        THEN [readiness |-> PopFlags(rd, ppos), put |-> <<ppos>>, raised |-> FALSE]
        ELSE [readiness |-> PutFlags(rd, ppos, flags), put |-> <<>>, raised |-> FALSE]

\* The dispatcher's handling of one done report pos with pos.n > 0: the
\* readiness map and what is put on ready_queue.  readiness.pop raises
\* KeyError when the parent has no entry.
Dispatch(rd, pos) ==
    LET pp == pos_parent(pos)
        ppos == pp[1]
        bit_num == 2 * pp[3] + pp[2]
        flags == SetBit(GetFlags(rd, ppos), bit_num)
    IN  IF flags = 15
        THEN IF ppos \in DOMAIN rd
             THEN [readiness |-> PopFlags(rd, ppos), put |-> <<ppos>>, raised |-> FALSE]
             ELSE [readiness |-> rd, put |-> <<>>, raised |-> TRUE]
        ELSE [readiness |-> PutFlags(rd, ppos, flags), put |-> <<>>, raised |-> FALSE]

\* One iteration of the dispatcher loop in which done_queue.get returns.
DispatcherTake ==
    /\ cpc = "dispatch"
    /\ done_queue # <<>>
    /\ \E pos \in {Head(done_queue)} :
           /\ done_queue' = Tail(done_queue)
           /\ progress' = progress + 1
           /\ reported' = reported \cup {pos}
           /\ IF pos[1] = 0
              THEN /\ cpc' = "shutdown"
                   /\ UNCHANGED <<readiness, ready_queue, nready>>
              ELSE \E d \in {Dispatch(readiness, pos)} :
                       /\ readiness' = d.readiness
                       /\ ready_queue' = ready_queue \o d.put
                       /\ nready' = CountPuts(nready, d.put)
                       /\ cpc' = IF d.raised THEN "raised" ELSE "dispatch"
    /\ UNCHANGED <<call, xf, pub, inputs, store, sidx, queues, done_event, wpc, wpos,
                   total, log, nproc, nmerge, nio>>

\* done_queue.get times out: continue.
DispatcherTimeout ==
    /\ cpc = "dispatch"
    /\ done_queue = <<>>
    /\ UNCHANGED vars

\* After the loop: ready_queue.close(), join_thread(), done_event.set().
Shutdown ==
    /\ cpc = "shutdown"
    /\ done_event' = TRUE
    /\ cpc' = "join"
    /\ UNCHANGED <<call, xf, pub, inputs, store, sidx, queues, ready_queue, done_queue,
                   readiness, wpc, wpos, nready, reported, progress, total,
                   log, nproc, nmerge, nio>>

\* A worker process has ended: it left its loop, or an exception ended it.
Ended(w) == wpc[w] \in {"exited", "dead"}

\* w.join() for every worker, then return.
JoinWorkers ==
    /\ cpc = "join"
    /\ \A w \in Workers : Started(w) => Ended(w)
    /\ cpc' = "returned"
    /\ UNCHANGED <<call, xf, pub, inputs, store, sidx, parstate, progress, total, log,
                   nproc, nmerge, nio>>

\* A worker leaving its loop on the first empty ready_queue, without
\* looking at done_event.
WorkerEmptyExitAtOnce(w) ==
    /\ wpc[w] = "get"
    /\ ready_queue = <<>>
    /\ wpc' = [wpc EXCEPT ![w] = "exited"]
    /\ UNCHANGED <<call, xf, pub, inputs, store, cpc, sidx, queues, ready_queue, done_queue,
                   done_event, readiness, wpos, nready, reported, progress,
                   total, log, nproc, nmerge, nio>>

\* A worker that reports only the tiles it wrote: after a skipped tile it
\* goes back to ready_queue.get.
WorkerProcessSilentSkip(w) ==
    /\ wpc[w] = "process"
    /\ \E g \in Uninit :
        \E r \in {process_tile(store, wpos[w], worker_slices(sign), g, rfail, wfail)} :
            /\ nio' = nio + r.io
            /\ nmerge' = nmerge + r.merges
            /\ IF r.status = "raised"
               THEN /\ wpc' = [wpc EXCEPT ![w] = "dead"]
                    /\ UNCHANGED <<store, nproc>>
               ELSE /\ store' = r.store
                    /\ nproc' = [nproc EXCEPT ![wpos[w]] = @ + 1]
                    /\ wpc' = [wpc EXCEPT ![w] =
                                  IF r.status = "skipped" THEN "get" ELSE "put"]
    /\ UNCHANGED <<call, xf, pub, inputs, cpc, sidx, queues, ready_queue, done_queue,
                   done_event, readiness, wpos, nready, reported, progress,
                   total, log>>

\* A worker that, with its done report, marks its tile in the readiness
\* map itself.
WorkerPutMarksReadiness(w) ==
    /\ wpc[w] = "put"
    /\ Len(done_queue) < 2 * parallel
    /\ done_queue' = Append(done_queue, wpos[w])
    /\ wpc' = [wpc EXCEPT ![w] = "get"]
    /\ readiness' =
          IF wpos[w][1] = 0 THEN readiness
          ELSE LET pp == pos_parent(wpos[w])
               IN  PutFlags(readiness, pp[1],
                            SetBit(GetFlags(readiness, pp[1]), 2 * pp[3] + pp[2]))
    /\ UNCHANGED <<call, xf, pub, inputs, store, cpc, sidx, queues, ready_queue, done_event,
                   wpos, nready, reported, progress, total, log,
                   nproc, nmerge, nio>>

\* done_queue.put on a queue that never has room.
WorkerPutNoRoom(w) ==
    /\ wpc[w] = "put"
    /\ Len(done_queue) < 0
    /\ done_queue' = Append(done_queue, wpos[w])
    /\ wpc' = [wpc EXCEPT ![w] = "get"]
    /\ UNCHANGED <<call, xf, pub, inputs, store, cpc, sidx, queues, ready_queue, done_event,
                   readiness, wpos, nready, reported, progress, total, log,
                   nproc, nmerge, nio>>

\* ready_queue.get returns a position.
WorkerGet(w) ==
    /\ wpc[w] = "get"
    /\ ready_queue # <<>>
    /\ wpos' = [wpos EXCEPT ![w] = Head(ready_queue)]
    /\ ready_queue' = Tail(ready_queue)
    /\ wpc' = [wpc EXCEPT ![w] = "process"]
    /\ UNCHANGED <<call, xf, pub, inputs, store, cpc, sidx, queues, done_queue, done_event,
                   readiness, nready, reported, progress, total, log, nproc,
                   nmerge, nio>>

\* ready_queue.get times out: leave the loop if done_event is set, else
\* try again.
WorkerEmpty(w) ==
    /\ wpc[w] = "get"
    /\ ready_queue = <<>>
    /\ wpc' = [wpc EXCEPT ![w] = IF done_event THEN "exited" ELSE "get"]
    /\ UNCHANGED <<call, xf, pub, inputs, store, cpc, sidx, queues, ready_queue, done_queue,
                   done_event, readiness, wpos, nready, reported, progress,
                   total, log, nproc, nmerge, nio>>

\* _process_tile in a worker.  An exception ends the worker process; the
\* dispatcher is not told.
WorkerProcess(w) ==
    /\ wpc[w] = "process"
    /\ \E g \in Uninit :
        \E r \in {process_tile(store, wpos[w], worker_slices(sign), g, rfail, wfail)} :
            /\ nio' = nio + r.io
            /\ nmerge' = nmerge + r.merges
            /\ IF r.status = "raised"
               THEN /\ wpc' = [wpc EXCEPT ![w] = "dead"]
                    /\ UNCHANGED <<store, nproc>>
               ELSE /\ store' = r.store
                    /\ nproc' = [nproc EXCEPT ![wpos[w]] = @ + 1]
                    /\ wpc' = [wpc EXCEPT ![w] = "put"]
    /\ UNCHANGED <<call, xf, pub, inputs, cpc, sidx, queues, ready_queue, done_queue,
                   done_event, readiness, wpos, nready, reported, progress,
                   total, log>>

\* done_queue.put(pos): blocks while the queue holds 2 * parallel reports.
WorkerPut(w) ==
    /\ wpc[w] = "put"
    /\ Len(done_queue) < 2 * parallel
    /\ done_queue' = Append(done_queue, wpos[w])
    /\ wpc' = [wpc EXCEPT ![w] = "get"]
    /\ UNCHANGED <<call, xf, pub, inputs, store, cpc, sidx, queues, ready_queue, done_event,
                   readiness, wpos, nready, reported, progress, total, log,
                   nproc, nmerge, nio>>

Worker(w) == WorkerGet(w) \/ WorkerEmpty(w) \/ WorkerProcess(w) \/ WorkerPut(w)

Next ==
    \/ CascadeImages
    \/ SerialLoop
    \/ SerialRoot
    \/ StartWorkers
    \/ DispatcherTake
    \/ DispatcherTimeout
    \/ Shutdown
    \/ JoinWorkers
    \/ \E w \in Workers : WorkerGet(w)
    \/ \E w \in Workers : WorkerEmpty(w)
    \/ \E w \in Workers : WorkerProcess(w)
    \/ \E w \in Workers : WorkerPut(w)

Spec == Init /\ [][Next]_vars

\* The main process: cascade_images, in either mode.
Main ==
    CascadeImages \/ SerialLoop \/ SerialRoot \/ StartWorkers
        \/ DispatcherTake \/ DispatcherTimeout \/ Shutdown \/ JoinWorkers

\* The operating system schedules the main process and every worker
\* process: none of them that can take a step waits forever.
Fairness == WF_vars(Main) /\ \A w \in Workers : WF_vars(Worker(w))

\* The fair behaviours are checked for one parity sign.
InitFair == Init /\ sign = -1

FairSpec == InitFair /\ [][Next]_vars /\ Fairness

\* ------------------------------------------- library functions on their own

\* The functions of toasty.pyramid and toasty.merge that client code calls
\* directly are applied to arguments drawn from bounded sets; call records
\* the function, its arguments and its outcome.  The functions keep no state
\* from one call to the next, so a behaviour makes one call.

\* An array is [shape, dtype, flat]: flat holds the elements in C order.
\* A float32 element is a finite value 0 .. MaxFloat, Inf or NaN; a uint8
\* element is 0 .. 255.
Inf == MaxFloat + 1
NaN == MaxFloat + 2

RECURSIVE Prod(_)
Prod(sq) == IF sq = <<>> THEN 1 ELSE Head(sq) * Prod(Tail(sq))

\* float32 addition: a sum beyond the largest finite value is Inf.
fadd(a, b) == IF a = Inf \/ b = Inf \/ a + b > MaxFloat THEN Inf ELSE a + b

\* np.nanmean over one quartet of float32: NaNs are replaced by 0 and left
\* out of the count, the sum is taken in float32 and divided by the count
\* (0/0 is NaN).
nanmean_float32(q) ==
    LET arr == [i \in 1 .. 4 |-> IF q[i] = NaN THEN 0 ELSE q[i]]
        cnt == Cardinality({i \in 1 .. 4 : q[i] # NaN})
        tot == fadd(fadd(arr[1], arr[2]), fadd(arr[3], arr[4]))
    IN  IF cnt = 0 THEN NaN ELSE IF tot = Inf THEN Inf ELSE tot \div cnt

\* np.nanmean over one quartet of uint8: an integer array has no NaN, so it
\* is np.mean over all four elements, in float64; astype(uint8) truncates.
nanmean_uint8(q) == (q[1] + q[2] + q[3] + q[4]) \div 4

nanmean(q, dtype) ==
    IF dtype = "float32" THEN nanmean_float32(q) ELSE nanmean_uint8(q)

\* averaging_merger reading the reshaped array with the two inner strides
\* exchanged.
averaging_merger_wrong_stride(data) ==
    LET rest == SubSeq(data.shape, 3, Len(data.shape))
        R == Prod(rest)
        s == <<data.shape[1] \div 2, 2, data.shape[2] \div 2, 2>> \o rest
        at(a, b, c, d, r) ==
            data.flat[((((a * s[2] + b) * s[3]) * s[4] + d * s[3] + c) * R + r) + 1]
        n == s[1] * s[3] * R
    IN  [shape |-> <<s[1], s[3]>> \o rest, dtype |-> data.dtype,
         flat |-> [k \in 1 .. n |->
            LET a == (k - 1) \div (s[3] * R)
                c == ((k - 1) \div R) % s[3]
                r == (k - 1) % R
            IN  nanmean(<<at(a, 0, c, 0, r), at(a, 0, c, 1, r),
                          at(a, 1, c, 0, r), at(a, 1, c, 1, r)>>, data.dtype)]]

\* averaging_merger(data): data.reshape(s) with
\* s = (H // 2, 2, W // 2, 2) + data.shape[2:], np.nanmean over the axes 1
\* and 3, astype(data.dtype).  at(a, b, c, d, r) is the element
\* [a, b, c, d, r] of the reshaped array.
averaging_merger(data) ==
    LET rest == SubSeq(data.shape, 3, Len(data.shape))
        R == Prod(rest)
        s == <<data.shape[1] \div 2, 2, data.shape[2] \div 2, 2>> \o rest
        at(a, b, c, d, r) ==
            data.flat[((((a * s[2] + b) * s[3] + c) * s[4] + d) * R + r) + 1]
        n == s[1] * s[3] * R
    IN  [shape |-> <<s[1], s[3]>> \o rest, dtype |-> data.dtype,
         flat |-> [k \in 1 .. n |->
            LET a == (k - 1) \div (s[3] * R)
                c == ((k - 1) \div R) % s[3]
                r == (k - 1) % R
            IN  nanmean(<<at(a, 0, c, 0, r), at(a, 0, c, 1, r),
                          at(a, 1, c, 0, r), at(a, 1, c, 1, r)>>, data.dtype)]]

\* A child image as _get_min_max_of_children sees it is None or the pair
\* <<data_min, data_max>>; a data_min or data_max is None or <<value>>.

\* _get_existing_min_values testing the truth of data_min, which drops 0.
get_existing_min_values_truthy(images) ==
    SelectSeq([i \in 1 .. Len(images) |-> IF images[i] = None THEN None ELSE images[i][1]],
              LAMBDA v : v # None /\ v # <<0>>)

get_existing_min_values(images) ==
    SelectSeq([i \in 1 .. Len(images) |-> IF images[i] = None THEN None ELSE images[i][1]],
              LAMBDA v : v # None)

get_existing_max_values(images) ==
    SelectSeq([i \in 1 .. Len(images) |-> IF images[i] = None THEN None ELSE images[i][2]],
              LAMBDA v : v # None)

\* Python's min and max over a non-empty list of <<value>>.
min(values) ==
    CHOOSE v \in {values[i] : i \in 1 .. Len(values)} :
        \A i \in 1 .. Len(values) : v[1] <= values[i][1]

max(values) ==
    CHOOSE v \in {values[i] : i \in 1 .. Len(values)} :
        \A i \in 1 .. Len(values) : v[1] >= values[i][1]

\* The store formats considered; "fits" in fmt holds for the first only.
Formats == {"fits", "png", "npy"}

\* _get_min_max_of_children(pio, children) for pio.get_default_format() = fmt.
get_min_max_of_children(fmt, children) ==
    IF fmt = "fits"
    THEN LET min_values == get_existing_min_values(children)
             max_values == get_existing_max_values(children)
         IN  << IF min_values # <<>> THEN min(min_values) ELSE None,
                IF max_values # <<>> THEN max(max_values) ELSE None >>
    ELSE <<None, None>>

\* The addresses pos_parent is called on: every valid address down to
\* MaxDepth and the address of test_pos_parent.
CallAddrs == AllPos \cup {Pos(7, 65, 33)}

CallPosParent ==
    /\ call = NoCall
    /\ \E pos \in CallAddrs : call' = <<"pos_parent", pos, pos_parent(pos)>>
    /\ UNCHANGED <<cascade, xf, pub>>

\* The pairs is_subtile is called on: all valid addresses down to
\* MaxCallDepth.
SubtileAddrs == UNION {Level(n) : n \in 0 .. MaxCallDepth}

CallIsSubtile ==
    /\ call = NoCall
    /\ \E deeper_pos \in SubtileAddrs, shallower_pos \in SubtileAddrs :
           call' = <<"is_subtile", <<deeper_pos, shallower_pos>>,
                     is_subtile(deeper_pos, shallower_pos)>>
    /\ UNCHANGED <<cascade, xf, pub>>

CallDepth2Tiles ==
    /\ call = NoCall
    /\ \E depth \in 0 .. MaxTilesDepth :
           call' = <<"depth2tiles", depth, depth2tiles(depth)>>
    /\ UNCHANGED <<cascade, xf, pub>>

\* The arrays averaging_merger is called on.  float32, shape (2, 2): every
\* quartet over a few values; float32, shapes (2, 4), (4, 2), (4, 4): all
\* elements different, at most one of them NaN, and the uniform arrays;
\* uint8, shape (2, 2, 4): every quartet over three RGBA pixels (one of
\* them transparent), and the uniform arrays of shape (4, 4, 4).
\* A finite value so large that twice it is beyond MaxFloat, while it plus
\* a few small values is not.
BigFloat == MaxFloat - 120

FloatValues == {NaN, Inf, 12, 24, BigFloat}

RGBAValues == {<<0, 0, 0, 0>>, <<200, 100, 40, 255>>, <<9, 9, 9, 255>>}

FloatArray(h, w, f) == [shape |-> <<h, w>>, dtype |-> "float32", flat |-> f]

RGBAArray(h, w, px) ==
    [shape |-> <<h, w, 4>>, dtype |-> "uint8",
     flat |-> [k \in 1 .. h * w * 4 |-> px[((k - 1) \div 4) + 1][((k - 1) % 4) + 1]]]

MergerInputs ==
    {FloatArray(2, 2, f) : f \in [1 .. 4 -> FloatValues]}
    \cup UNION {
        {FloatArray(hw[1], hw[2], [k \in 1 .. hw[1] * hw[2] |-> IF k = m THEN NaN ELSE 12 * k])
            : m \in 0 .. hw[1] * hw[2]}
        : hw \in {<<2, 4>>, <<4, 2>>, <<4, 4>>}}
    \cup {FloatArray(4, 4, [k \in 1 .. 16 |-> v]) : v \in FloatValues}
    \cup {RGBAArray(2, 2, px) : px \in [1 .. 4 -> RGBAValues]}
    \cup {RGBAArray(4, 4, [k \in 1 .. 16 |-> v]) : v \in RGBAValues}

CallAveragingMerger ==
    /\ call = NoCall
    /\ \E data \in MergerInputs :
           call' = <<"averaging_merger", data, averaging_merger(data)>>
    /\ UNCHANGED <<cascade, xf, pub>>

\* The children _get_min_max_of_children is called on: each is absent, or
\* an image with or without data_min and data_max.
ChildImages ==
    {None, <<None, None>>, << <<0>>, <<5>> >>, << <<-3>>, <<-3>> >>, << <<2>>, None >>}

CallGetMinMax ==
    /\ call = NoCall
    /\ \E fmt \in Formats, children \in [1 .. 4 -> ChildImages] :
           call' = <<"_get_min_max_of_children", <<fmt, children>>,
                     get_min_max_of_children(fmt, children)>>
    /\ UNCHANGED <<cascade, xf, pub>>

\* The sets get_parents is called on: the two of test_get_parents, and up
\* to MaxSel tiles of one depth >= 1 among Candidates.
ParentInputs ==
    { {Pos(1, 0, 0), Pos(1, 1, 0)}, {Pos(7, 63, 33), Pos(7, 64, 33), Pos(7, 65, 33)} }
    \cup UNION {{t \in SUBSET Candidates(d) : t # {} /\ Cardinality(t) <= MaxSel}
                    : d \in 1 .. MaxDepth}

CallGetParents ==
    /\ call = NoCall
    /\ \E tiles \in ParentInputs, get_all_ancestors \in BOOLEAN :
           call' = <<"get_parents", <<tiles, get_all_ancestors>>,
                     IF get_all_ancestors THEN Ancestors(tiles) ELSE get_parents(tiles)>>
    /\ UNCHANGED <<cascade, xf, pub>>

\* The sets _initiate_readiness_state is called on, readiness being empty:
\* those of test_initiate_readiness_state and those of ParentInputs.
ReadinessInputs == ParentInputs \cup {{Pos(3, 7, 7), Pos(3, 3, 1)}}

CallInitiateReadiness ==
    /\ call = NoCall
    /\ \E tiles_to_process \in ReadinessInputs :
           call' = <<"_initiate_readiness_state", tiles_to_process,
                     initiate_readiness_state(tiles_to_process, EmptyMap)>>
    /\ UNCHANGED <<cascade, xf, pub>>

\* The calls of _initiate_readiness_state stopping after the first
\* generation of parents.
initiate_readiness_calls_one_generation(tiles_to_process) ==
    IF tiles_to_process = {} \/ Pos(0, 0, 0) \in tiles_to_process
    THEN << [tiles |-> tiles_to_process, parents_of |-> {}] >>
    ELSE << [tiles |-> tiles_to_process, parents_of |-> tiles_to_process],
            [tiles |-> get_parents(tiles_to_process), parents_of |-> {}] >>

\* The calls one call of _initiate_readiness_state(tiles_to_process, ...)
\* makes of itself, the first included, in order: for each its argument
\* tiles and the tiles get_parents takes the parent of in it (none when the
\* call returns at its first test).
RECURSIVE initiate_readiness_calls(_)
initiate_readiness_calls(tiles_to_process) ==
    IF tiles_to_process = {} \/ Pos(0, 0, 0) \in tiles_to_process
    THEN << [tiles |-> tiles_to_process, parents_of |-> {}] >>
    ELSE << [tiles |-> tiles_to_process, parents_of |-> tiles_to_process] >>
         \o initiate_readiness_calls(get_parents(tiles_to_process))

\* The sets and readiness maps the calls of _initiate_readiness_state are
\* followed on: those of ReadinessInputs, the empty set and the root by
\* itself; an empty map and one that holds an entry.
RecursionInputs == ReadinessInputs \cup {{}, {Pos(0, 0, 0)}, {Pos(7, 65, 33)}}

RecursionMaps == {EmptyMap, PutFlags(EmptyMap, Pos(0, 0, 0), 6)}

CallInitiateRecursion ==
    /\ call = NoCall
    /\ \E tiles_to_process \in RecursionInputs, rd \in RecursionMaps :
           call' = <<"_initiate_readiness_state (calls)", <<tiles_to_process, rd>>,
                     <<initiate_readiness_calls(tiles_to_process),
                       initiate_readiness_state(tiles_to_process, rd)>> >>
    /\ UNCHANGED <<cascade, xf, pub>>

\* _process_tile on a store st of which only the data_min and data_max of
\* each tile are kept: a tile is None or <<data_min, data_max>>, and the
\* tile written at pos reads back with the min_value and max_value it was
\* written with.
process_tile_min_max(st, pos, fmt) ==
    LET children == pos_children(pos)
        imgs == [i \in 1 .. 4 |-> read_image(st, children[i])]
    IN  IF \A i \in 1 .. 4 : imgs[i] = None THEN st
        ELSE [st EXCEPT ![pos] = get_min_max_of_children(fmt, imgs)]

\* The loop of the unfiltered serial cascade over the positions seq.
RECURSIVE cascade_min_max(_, _, _)
cascade_min_max(st, seq, fmt) ==
    IF seq = <<>> THEN st
    ELSE cascade_min_max(process_tile_min_max(st, Head(seq), fmt), Tail(seq), fmt)

\* What a tile of depth start holds in the stores the min/max cascade is
\* run on: nothing, or an image with its data_min and data_max (or, for
\* one of them, without a data_max).
LeafImages ==
    {None, << <<0>>, <<5>> >>, << <<-3>>, <<-3>> >>, << <<2>>, <<9>> >>, << <<2>>, None >>}

\* Those stores, for a cascade from depth s: the children of the first
\* tile of depth s-1 hold any of LeafImages, the other tiles of depth s
\* hold all the same, nothing or one image.
MinMaxStores(s) ==
    LET first == ChildSet(Pos(s - 1, 0, 0))
    IN  {[p \in UNION {Level(n) : n \in 0 .. s} |->
            IF p \in first THEN f[p] ELSE IF p[1] = s THEN rest ELSE None] :
                f \in [first -> LeafImages], rest \in {None, << <<1>>, <<7>> >>}}

CallCascadeMinMax ==
    /\ call = NoCall
    /\ \E s \in 1 .. MaxStart :
         \E st \in MinMaxStores(s) :
           call' = <<"cascade_images (min/max)", <<s, st>>,
                     cascade_min_max(st, generate_pos(s - 1), "fits")>>
    /\ UNCHANGED <<cascade, xf, pub>>

\* The choice of the quadrant table for a store of vertical parity sign
\* parity_sign, by the serial cascade and by a worker.
CallSelectSlices ==
    /\ call = NoCall
    /\ \E parity_sign \in {-1, 1} :
           call' = <<"slices", parity_sign,
                     <<SelectSlices(parity_sign), worker_slices(parity_sign)>> >>
    /\ UNCHANGED <<cascade, xf, pub>>

\* The dispatcher's loop on the done reports it takes, one after the other,
\* from the readiness map rd: it stops at the report of the root tile or
\* when a step raises.  ready collects what it puts on ready_queue.
RECURSIVE dispatcher_loop(_, _, _)
dispatcher_loop(rd, ready, reports) ==
    IF reports = <<>> \/ Head(reports)[1] = 0
    THEN [readiness |-> rd, put |-> ready, raised |-> FALSE]
    ELSE LET d == Dispatch(rd, Head(reports))
         IN  IF d.raised THEN [readiness |-> rd, put |-> ready, raised |-> TRUE]
             ELSE dispatcher_loop(d.readiness, ready \o d.put, Tail(reports))

\* The done reports the dispatcher's loop is run on by itself: up to five
\* reports for tiles of depth 1, in any order and with repetitions.
ReportInputs == UNION {[1 .. n -> Level(1)] : n \in 1 .. 5}

CallDispatcher ==
    /\ call = NoCall
    /\ \E reports \in ReportInputs :
           call' = <<"dispatcher", reports, dispatcher_loop(EmptyMap, <<>>, reports)>>
    /\ UNCHANGED <<cascade, xf, pub>>

\* No cascade runs while the library functions are called on their own.
LibInit ==
    /\ start = 0 /\ parallel = 1 /\ filtered = FALSE /\ sel = {}
    /\ sign = -1 /\ NoFault /\ store0 = StoreWith({})
    /\ InitProgram
    /\ call = NoCall
    /\ xf = XfIdle /\ pub = PubIdle

LibNext ==
    \/ CallPosParent
    \/ CallIsSubtile
    \/ CallDepth2Tiles
    \/ CallAveragingMerger
    \/ CallGetMinMax
    \/ CallGetParents
    \/ CallSelectSlices
    \/ CallCascadeMinMax
    \/ CallInitiateReadiness
    \/ CallInitiateRecursion
    \/ CallDispatcher

LibSpec == LibInit /\ [][LibNext]_vars

\* ------------------------------------ transform._float_to_rgba_parallel

\* No cascade runs and no library function is called while the transform
\* or publish_todos runs.
OthersIdle ==
    /\ start = 0 /\ parallel = 1 /\ filtered = FALSE /\ sel = {}
    /\ sign = -1 /\ NoFault /\ store0 = StoreWith({})
    /\ InitProgram
    /\ call = NoCall

XfInit ==
    /\ OthersIdle
    /\ pub = PubIdle
    /\ \E depth \in 0 .. MaxXfDepth, par \in 2 .. MaxParallel :
          xf = [XfIdle EXCEPT !.pc = "call", !.depth = depth, !.parallel = par,
                              !.ndone = [p \in UNION {Level(n) : n \in 0 .. depth} |-> 0]]

\* The loop that creates and starts the worker processes.
XfStartWorkers ==
    /\ xf.pc = "call"
    /\ xf' = [xf EXCEPT !.pc = "put",
                        !.wpc = [w \in Workers |->
                                    IF w <= xf.parallel THEN "check" ELSE "unstarted"]]
    /\ UNCHANGED <<cascade, call, pub>>

\* queue.put(pos) for the next pos of generate_pos(depth): blocks while the
\* queue holds 16 * parallel positions.
XfPut ==
    /\ xf.pc = "put"
    /\ xf.idx <= Len(generate_pos(xf.depth))
    /\ Len(xf.queue) < 16 * xf.parallel
    /\ xf' = [xf EXCEPT !.queue = Append(@, generate_pos(xf.depth)[xf.idx]),
                        !.idx = @ + 1]
    /\ UNCHANGED <<cascade, call, pub>>

\* After the loop: queue.close(), queue.join_thread(), done_event.set().
XfShutdown ==
    /\ xf.pc = "put"
    /\ xf.idx > Len(generate_pos(xf.depth))
    /\ xf' = [xf EXCEPT !.done_event = TRUE, !.pc = "join"]
    /\ UNCHANGED <<cascade, call, pub>>

\* w.join() for every worker, then return.
XfJoinWorkers ==
    /\ xf.pc = "join"
    /\ \A w \in Workers : w <= xf.parallel => xf.wpc[w] = "exited"
    /\ xf' = [xf EXCEPT !.pc = "returned"]
    /\ UNCHANGED <<cascade, call, pub>>

\* The top of the worker's loop: break if done_event is set.
XfWorkerCheck(w) ==
    /\ xf.wpc[w] = "check"
    /\ xf' = [xf EXCEPT !.wpc[w] = IF xf.done_event THEN "exited" ELSE "get"]
    /\ UNCHANGED <<cascade, call, pub>>

\* queue.get returns a position.
XfWorkerGet(w) ==
    /\ xf.wpc[w] = "get"
    /\ xf.queue # <<>>
    /\ xf' = [xf EXCEPT !.wpos[w] = Head(xf.queue), !.queue = Tail(@),
                        !.wpc[w] = "do"]
    /\ UNCHANGED <<cascade, call, pub>>

\* queue.get times out: continue.
XfWorkerEmpty(w) ==
    /\ xf.wpc[w] = "get"
    /\ xf.queue = <<>>
    /\ xf' = [xf EXCEPT !.wpc[w] = "check"]
    /\ UNCHANGED <<cascade, call, pub>>

\* _float_to_rgba_do_one(buf, pos, ...), then back to the top of the loop.
XfWorkerDoOne(w) ==
    /\ xf.wpc[w] = "do"
    /\ xf' = [xf EXCEPT !.ndone[xf.wpos[w]] = @ + 1, !.wpc[w] = "check"]
    /\ UNCHANGED <<cascade, call, pub>>

XfWorker(w) ==
    XfWorkerCheck(w) \/ XfWorkerGet(w) \/ XfWorkerEmpty(w) \/ XfWorkerDoOne(w)

XfNext ==
    \/ XfStartWorkers
    \/ XfPut
    \/ XfShutdown
    \/ XfJoinWorkers
    \/ \E w \in Workers : XfWorkerCheck(w)
    \/ \E w \in Workers : XfWorkerGet(w)
    \/ \E w \in Workers : XfWorkerEmpty(w)
    \/ \E w \in Workers : XfWorkerDoOne(w)

TransformSpec == XfInit /\ [][XfNext]_vars

\* ------------------------------------- PipelineManager.publish_todos

\* A path below out_todo is the sequence of its components; <<>> is
\* out_todo itself.  The files out_todo is populated from.
FileUniverse ==
    { <<"a", "index.wtml">>, <<"a", "t.jpg">>, <<"a", "u.jpg">>,
      <<"a", "0", "p.png">>, <<"a", "0", "index.wtml">>, <<"b", "index.wtml">> }

\* The names of directories, in the order os.scandir lists them (or, for a
\* reversed listing, the opposite order).
DirNames == <<"0", "a", "b">>

Reverse(seq) == [i \in 1 .. Len(seq) |-> seq[Len(seq) + 1 - i]]

\* os.path.dirname
DirOf(p) == SubSeq(p, 1, Len(p) - 1)

\* The directories a set of files lies in, out_todo included.
DirsOf(files) ==
    {<<>>} \cup UNION {{SubSeq(f, 1, k) : k \in 1 .. Len(f) - 1} : f \in files}

\* The dirnames of directory d, as listed.
ListDirs(dirs, d, rev) ==
    LET all == [i \in 1 .. Len(DirNames) |-> Append(d, DirNames[i])]
        listed == SelectSeq(all, LAMBDA e : e \in dirs)
    IN  IF rev THEN Reverse(listed) ELSE listed

\* os.walk(d, topdown=False): the directories in the order they are
\* yielded, every subdirectory before its parent.
RECURSIVE walk(_, _, _)
RECURSIVE walk_each(_, _, _)
walk(dirs, d, rev) == walk_each(dirs, ListDirs(dirs, d, rev), rev) \o <<d>>

walk_each(dirs, ds, rev) ==
    IF ds = <<>> THEN <<>>
    ELSE walk(dirs, Head(ds), rev) \o walk_each(dirs, Tail(ds), rev)

\* The filenames of a directory left in the order of the listing.
index_last_not_moved(filenames) == filenames

\* The exchange that moves index.wtml to the end of filenames.
index_last(filenames) ==
    IF \A i \in 1 .. Len(filenames) : filenames[i] # "index.wtml" THEN filenames
    ELSE LET index_index == CHOOSE i \in 1 .. Len(filenames) :
                                /\ filenames[i] = "index.wtml"
                                /\ \A j \in 1 .. i - 1 : filenames[j] # "index.wtml"
             temp == filenames[Len(filenames)]
             moved == [filenames EXCEPT ![Len(filenames)] = "index.wtml"]
         IN  [moved EXCEPT ![index_index] = temp]

\* The orders in which a directory's files may be listed.
Listings(names) ==
    {f \in [1 .. Cardinality(names) -> names] :
        \A i, j \in 1 .. Cardinality(names) : i # j => f[i] # f[j]}

PubInit ==
    /\ OthersIdle
    /\ xf = XfIdle
    /\ \E files \in SUBSET FileUniverse, rev \in BOOLEAN :
          pub = [PubIdle EXCEPT !.pc = "call", !.todo = files, !.tree = files,
                                !.dirs = DirsOf(files), !.reversed = rev]

\* publish_todos is called, the first time or again after a put failed:
\* os.walk starts on out_todo as it is then.
PubCall ==
    /\ pub.pc \in {"call", "raised"}
    /\ pub.runs < MaxPublishRuns
    /\ pub' = [pub EXCEPT !.pc = "walk", !.runs = @ + 1,
                          !.pending = walk(pub.dirs, <<>>, pub.reversed),
                          !.dirpath = <<>>, !.filenames = <<>>]
    /\ UNCHANGED <<cascade, call, xf>>

\* os.walk yields the next directory; its filenames come in any order and
\* index.wtml is moved to the end.
PubEnterDir ==
    /\ pub.pc = "walk"
    /\ pub.pending # <<>>
    /\ \E listing \in Listings({f[Len(f)] : f \in {g \in pub.todo : DirOf(g) = Head(pub.pending)}}) :
          pub' = [pub EXCEPT !.pc = "dir", !.dirpath = Head(pub.pending),
                            !.pending = Tail(@),
                            !.filenames = index_last(listing)]
    /\ UNCHANGED <<cascade, call, xf>>

\* put_item succeeds for the next file, which is then renamed into
\* out_done.
PubPutItem ==
    /\ pub.pc = "dir"
    /\ pub.filenames # <<>>
    /\ \E p \in {Append(pub.dirpath, Head(pub.filenames))} :
          pub' = [pub EXCEPT !.store = @ \cup {p}, !.log = Append(@, p),
                            !.todo = @ \ {p}, !.filenames = Tail(@)]
    /\ UNCHANGED <<cascade, call, xf>>

\* put_item raises: publish_todos ends with the exception.
PubPutFails ==
    /\ pub.pc = "dir"
    /\ pub.filenames # <<>>
    /\ pub' = [pub EXCEPT !.pc = "raised", !.pending = <<>>, !.filenames = <<>>]
    /\ UNCHANGED <<cascade, call, xf>>

\* os.rmdir(dirpath) after the last file of the directory; it raises if
\* the directory is not empty.
PubRmdir ==
    /\ pub.pc = "dir"
    /\ pub.filenames = <<>>
    /\ IF \E e \in pub.todo \cup pub.dirs : DirOf(e) = pub.dirpath /\ e # <<>>
       THEN pub' = [pub EXCEPT !.pc = "raised", !.pending = <<>>]
       ELSE pub' = [pub EXCEPT !.pc = "walk", !.dirs = @ \ {pub.dirpath}]
    /\ UNCHANGED <<cascade, call, xf>>

\* os.walk is exhausted: publish_todos returns.
PubReturn ==
    /\ pub.pc = "walk"
    /\ pub.pending = <<>>
    /\ pub' = [pub EXCEPT !.pc = "returned"]
    /\ UNCHANGED <<cascade, call, xf>>

PubNext ==
    \/ PubCall
    \/ PubEnterDir
    \/ PubPutItem
    \/ PubPutFails
    \/ PubRmdir
    \/ PubReturn

PublishSpec == PubInit /\ [][PubNext]_vars

\* ------------------------------------------------------------ properties

UnfilteredParallel == ~filtered /\ parallel > 1 /\ start >= 1

Processed(p) == nproc[p] > 0

\* C1: in an unfiltered parallel cascade a position of depth < start-1 is
\* on the ready channel (or was) only if the dispatcher has taken the done
\* reports of all four of its children, and a worker that is about to read
\* the children of such a position finds all four already processed.
C1_ParentAfterChildren ==
    UnfilteredParallel =>
        /\ \A p \in AllPos :
              (p[1] < start - 1 /\ nready[p] > 0) => ChildSet(p) \subseteq reported
        /\ \A w \in Workers :
              (wpc[w] = "process" /\ wpos[w][1] < start - 1) =>
                  \A c \in ChildSet(wpos[w]) : Processed(c)

C1_Witness ==
    /\ UnfilteredParallel
    /\ \E w \in Workers : wpc[w] = "process" /\ wpos[w][1] < start - 1

\* The store the serial loop leaves when it processes seq[i..] on st and no
\* store operation raises.
RECURSIVE SerialFold(_, _, _, _, _)
SerialFold(st, seq, i, slices, g) ==
    IF i > Len(seq) THEN st
    ELSE SerialFold(process_tile(st, seq[i], slices, g, {}, {}).store,
                    seq, i + 1, slices, g)

\* C2: when an unfiltered cascade returns and no store operation failed,
\* the store holds at every address exactly what the serial walk over
\* generate_pos(start-1) leaves there, whether the cascade ran serially or
\* with workers, whatever the interleaving.
C2_ParallelEqualsSerial ==
    (cpc = "returned" /\ ~filtered /\ start >= 1 /\ NoFault) =>
        \A g \in Uninit :
            store = SerialFold(store0, generate_pos(start - 1), 1,
                               SelectSlices(sign), g)

C2_Witness ==
    /\ cpc = "returned" /\ UnfilteredParallel /\ NoFault
    /\ start = MaxStart
    /\ store[Root] # None
    /\ \E p \in Level(start) : store0[p] = None

AllExited == \A w \in Workers : Started(w) => wpc[w] = "exited"

\* C3: an unfiltered parallel cascade with start >= 1 in which no tile
\* operation fails terminates under fair scheduling: the root's done report
\* is taken, the shutdown signal is set, every worker exits and the
\* dispatcher returns.
C3_ParallelTerminates ==
    (UnfilteredParallel /\ NoFault) ~>
        (cpc = "returned" /\ Root \in reported /\ done_event /\ AllExited)

C3_Witness ==
    /\ UnfilteredParallel /\ NoFault /\ start = MaxStart
    /\ cpc = "returned" /\ Root \in reported /\ done_event /\ AllExited

LogSet == {log[i] : i \in 1 .. Len(log)}

\* C4: the serial unfiltered cascade processes every address of depth
\* 0..start-1 exactly once, depth2tiles(start-1) addresses in all, each
\* after all of its children of depth <= start-1, and the root last.
C4_SerialOrder ==
    (~filtered /\ parallel = 1 /\ start >= 1) =>
        /\ \A i, j \in 1 .. Len(log) : i # j => log[i] # log[j]
        /\ \A i \in 1 .. Len(log) :
              \A c \in ChildSet(log[i]) :
                  c[1] <= start - 1 => \E j \in 1 .. i - 1 : log[j] = c
        /\ cpc = "returned" =>
              /\ Len(log) = depth2tiles(start - 1)
              /\ LogSet = UNION {Level(n) : n \in 0 .. start - 1}
              /\ log[Len(log)] = Root

C4_Witness ==
    /\ ~filtered /\ parallel = 1 /\ start = MaxStart
    /\ cpc = "returned"
    /\ Len(log) = depth2tiles(MaxStart - 1)

\* _process_tile ran to its end on p in this step.
RanTile(p) == nproc'[p] = nproc[p] + 1

NPresent(st, p) == Cardinality({c \in ChildSet(p) : read_image(st, c) # None})

\* C5: a step that processes a tile whose four children are all absent
\* calls no merger and leaves the store as it was, in the serial cascade
\* and in a worker.
C5_AllAbsentSkipped ==
    [][\A p \in AllPos :
          (RanTile(p) /\ NPresent(store, p) = 0) =>
              (store' = store /\ nmerge' = nmerge)]_vars

C5_Witness ==
    /\ parallel > 1
    /\ \E p \in AllPos :
          /\ p[1] < start
          /\ Processed(p)
          /\ NPresent(store, p) = 0
          /\ store[p] = None
    /\ \E p \in AllPos : store[p] # None

\* The quadrant the child with index i (1..4, 2*y_index + x_index + 1)
\* belongs in: left or right by x_index, top or bottom by y_index, the
\* halves exchanged when the store's parity sign is 1.
OwnQuadrant(i, sgn) ==
    LET x_index == (i - 1) % 2
        y_index == (i - 1) \div 2
        row == IF sgn = 1 THEN 1 - y_index ELSE y_index
    IN  2 * row + x_index + 1

\* The combined buffer of a tile: each present child in its own quadrant,
\* the sentinel in the quadrant of each absent child.
ExpectedBuffer(st, p, sgn) ==
    [q \in 1 .. 4 |->
        LET i == CHOOSE i \in 1 .. 4 : OwnQuadrant(i, sgn) = q
            img == read_image(st, pos_children(p)[i])
        IN  IF img = None THEN Sentinel ELSE img]

\* C6: a step that processes a tile with one to three children present
\* raises nothing, calls the merger once, on the buffer that holds each
\* present child in its own quadrant and the sentinel elsewhere, and writes
\* the result at the tile's address.
C6_PartialMerged ==
    [][/\ NoFault => (cpc' # "raised" /\ \A w \in Workers : wpc'[w] # "dead")
       /\ \A p \in AllPos :
             (RanTile(p) /\ NPresent(store, p) \in 1 .. 3) =>
                 /\ nmerge' = nmerge + 1
                 /\ store' = [store EXCEPT ![p] = merger(ExpectedBuffer(store, p, sign))]]_vars

C6_Witness ==
    \E p \in AllPos :
        /\ p[1] < start
        /\ Processed(p)
        /\ NPresent(store, p) \in 1 .. 3
        /\ store[p] = merger(ExpectedBuffer(store, p, sign))
        /\ \E q \in 1 .. 4 : store[p][q] = Sentinel

Failed == cpc = "raised" \/ \E w \in Workers : wpc[w] = "dead"

\* C7: a read or write that fails during a cascade reaches the caller of
\* cascade_images: once a store operation has raised, the call ends by
\* raising; it neither returns normally nor waits forever.
C7_FailurePropagates == Failed ~> (cpc = "raised")

Selected == sel \cup Ancestors(sel)

FilteredParallel == filtered /\ parallel > 1 /\ sel # {}

\* C8: in a filtered parallel cascade with a non-empty selection, every
\* strict ancestor of a selected tile has been put on the ready channel
\* exactly once if the dispatcher has taken the done reports of all of its
\* children that are selected or ancestors of selected tiles, and not at
\* all otherwise; nothing outside is ever put; and when no store operation
\* fails the cascade returns with the root processed.
C8_FilteredReadiness ==
    /\ [](FilteredParallel =>
            /\ \A a \in Ancestors(sel) :
                  nready[a] =
                      IF (ChildSet(a) \cap Selected) \subseteq reported THEN 1 ELSE 0
            /\ \A p \in AllPos \ Selected : nready[p] = 0)
    /\ (FilteredParallel /\ NoFault) ~> (cpc = "returned" /\ nproc[Root] = 1)

C8_Witness ==
    /\ FilteredParallel /\ NoFault
    /\ start = 3
    /\ Cardinality(Ancestors(sel)) = 3
    /\ cpc = "returned"
    /\ \A a \in Ancestors(sel) : nready[a] = 1 /\ nproc[a] = 1

\* C9: when a filtered serial cascade returns, the root is the last tile
\* it processed, it processed it once, and every tile the filter selects
\* was processed before it; this also when the filter selects nothing.
C9_FilteredRootLast ==
    (filtered /\ parallel = 1 /\ start >= 1 /\ cpc = "returned") =>
        /\ Len(log) >= 1
        /\ log[Len(log)] = Root
        /\ \A t \in Selected \cup {Root} :
              Cardinality({i \in 1 .. Len(log) : log[i] = t}) = 1

C9_Witness ==
    /\ filtered /\ parallel = 1 /\ cpc = "returned"
    /\ start = 3
    /\ Cardinality(sel) = 2
    /\ log[Len(log)] = Root

\* C10: a call with start < 1 returns at once: no tile is read or written,
\* no merger runs, no queue is created and no worker is started, whatever
\* parallel and the tile filter are.
C10_StartBelowOne ==
    start < 1 =>
        /\ cpc \in {"call", "returned"}
        /\ store = store0
        /\ nio = 0
        /\ nmerge = 0
        /\ ~queues
        /\ \A w \in Workers : wpc[w] = "unstarted"

C10_Witness == start < 1 /\ cpc = "returned" /\ parallel > 1 /\ filtered

\* C11: for every address (n, x, y) with n >= 1, pos_parent returns the
\* parent (n-1, x div 2, y div 2) with x_index = x mod 2 and
\* y_index = y mod 2; for an address with n < 1 it raises ValueError and
\* returns no parent.
C11_PosParent ==
    call[1] = "pos_parent" =>
        LET n == call[2][1]
            x == call[2][2]
            y == call[2][3]
        IN  IF n >= 1
            THEN call[3] = <<Pos(n - 1, x \div 2, y \div 2), x % 2, y % 2>>
            ELSE call[3] = <<"ValueError">>

C11_Witness == call = <<"pos_parent", Pos(7, 65, 33), <<Pos(6, 32, 16), 1, 1>>>>

\* C12: for every valid address a with a.n >= 1 and
\* (p, xi, yi) = pos_parent(a), the address (p.n + 1, 2*p.x + xi, 2*p.y + yi)
\* is a, and the four children of p have four distinct bit indices
\* 2*yi + xi, in 0 .. 3.
C12_RoundTrip ==
    (call[1] = "pos_parent" /\ call[2][1] >= 1) =>
        LET p == call[3][1]
            xi == call[3][2]
            yi == call[3][3]
            siblings == {Pos(p[1] + 1, 2 * p[2] + i, 2 * p[3] + j) : i, j \in {0, 1}}
            bit_num(c) == 2 * pos_parent(c)[3] + pos_parent(c)[2]
        IN  /\ Pos(p[1] + 1, 2 * p[2] + xi, 2 * p[3] + yi) = call[2]
            /\ {bit_num(c) : c \in siblings} = 0 .. 3
            /\ \A c \in siblings : pos_parent(c)[1] = p

C12_Witness == call[1] = "pos_parent" /\ call[2] = Pos(2, 2, 1) /\ call[3][3] = 1

\* C13: is_subtile(deep, shallow) raises ValueError when deep.n < shallow.n;
\* otherwise it returns True exactly when shallow is the ancestor of deep at
\* depth shallow.n, (shallow.n, deep.x div 2^k, deep.y div 2^k) with
\* k = deep.n - shallow.n, and False otherwise.
C13_IsSubtile ==
    call[1] = "is_subtile" =>
        LET deep == call[2][1]
            shallow == call[2][2]
        IN  IF deep[1] < shallow[1]
            THEN call[3] = Raised("ValueError")
            ELSE LET k == deep[1] - shallow[1]
                 IN  call[3] = Returned(shallow = Pos(shallow[1], deep[2] \div Pow2(k),
                                                      deep[3] \div Pow2(k)))

\* The sum of 4^k for k = 0 .. depth.
RECURSIVE SumPow4(_)
SumPow4(depth) == IF depth < 0 THEN 0 ELSE (4 ^ depth) + SumPow4(depth - 1)

\* C14: for every depth >= 0, depth2tiles(depth) is (4^(depth+1) - 1) / 3
\* with the division exact, the number of addresses at depths 0 .. depth;
\* depth2tiles(0) = 1, (1) = 5, (2) = 21, (10) = 1398101.
C14_Depth2Tiles ==
    call[1] = "depth2tiles" =>
        LET depth == call[2]
            r == call[3]
        IN  /\ 3 * r = (4 ^ (depth + 1)) - 1
            /\ r = SumPow4(depth)
            /\ depth <= MaxDepth =>
                  r = Cardinality(UNION {Level(k) : k \in 0 .. depth})
            /\ depth = 0 => r = 1
            /\ depth = 1 => r = 5
            /\ depth = 2 => r = 21
            /\ depth = 10 => r = 1398101

C14_Witness == call = <<"depth2tiles", 10, 1398101>>

\* The pixel (i, j) of an array, rows and columns counted from 0: the
\* tuple of its elements along the remaining axes.
Pixel(arr, i, j) ==
    LET R == Prod(SubSeq(arr.shape, 3, Len(arr.shape)))
    IN  [r \in 1 .. R |-> arr.flat[(i * arr.shape[2] + j) * R + r]]

\* The absent-value sentinel: NaN for float32, alpha = 0 for a bitmap.
IsSentinel(px, dtype) == IF dtype = "float32" THEN px[1] = NaN ELSE px[4] = 0

\* The four input pixels that output pixel (i, j) stands for.
Quartet(arr, i, j) ==
    <<Pixel(arr, 2 * i, 2 * j), Pixel(arr, 2 * i, 2 * j + 1),
      Pixel(arr, 2 * i + 1, 2 * j), Pixel(arr, 2 * i + 1, 2 * j + 1)>>

RECURSIVE SumOver(_, _, _)
SumOver(q, idx, ch) ==
    IF idx = {} THEN 0
    ELSE LET i == CHOOSE k \in idx : TRUE
         IN  q[i][ch] + SumOver(q, idx \ {i}, ch)

\* The average of the pixels idx of a quartet, channel by channel.
AverageOf(q, idx, dtype) ==
    [ch \in 1 .. Len(q[1]) |->
        IF dtype = "float32" /\ \E i \in idx : q[i][ch] = Inf THEN Inf
        ELSE SumOver(q, idx, ch) \div Cardinality(idx)]

OutPixels(arr) ==
    {<<i, j>> : i \in 0 .. (arr.shape[1] \div 2) - 1, j \in 0 .. (arr.shape[2] \div 2) - 1}

\* C15: averaging_merger reduces each 2x2 block to the average of its
\* defined pixels only: a block of four sentinels gives the sentinel, a
\* block with a defined pixel gives a defined pixel, the average of the
\* defined ones (with three sentinels, the one defined pixel), for the
\* float sentinel NaN and for the bitmap sentinel alpha = 0.
C15_AveragingIgnoresSentinels ==
    call[1] = "averaging_merger" =>
        \A ij \in OutPixels(call[2]) :
            LET dtype == call[2].dtype
                q == Quartet(call[2], ij[1], ij[2])
                defined == {k \in 1 .. 4 : ~IsSentinel(q[k], dtype)}
                out == Pixel(call[3], ij[1], ij[2])
            IN  IF defined = {} THEN IsSentinel(out, dtype)
                ELSE ~IsSentinel(out, dtype) /\ out = AverageOf(q, defined, dtype)

\* C16: when every pixel of the merged buffer (four identical uniform
\* children) has the same value v, every pixel of the merged tile is v.
C16_UniformIdempotent ==
    call[1] = "averaging_merger" =>
        LET data == call[2]
            all == {<<i, j>> : i \in 0 .. data.shape[1] - 1, j \in 0 .. data.shape[2] - 1}
        IN  \A v \in {Pixel(data, 0, 0)} :
                (\A ij \in all : Pixel(data, ij[1], ij[2]) = v)
                    => \A ij \in OutPixels(data) : Pixel(call[3], ij[1], ij[2]) = v

\* The 2x2 array made of the block of output pixel (i, j).
Block(arr, i, j) ==
    LET q == Quartet(arr, i, j)
        R == Len(q[1])
    IN  [shape |-> <<2, 2>> \o SubSeq(arr.shape, 3, Len(arr.shape)),
         dtype |-> arr.dtype,
         flat |-> [k \in 1 .. 4 * R |-> q[((k - 1) \div R) + 1][((k - 1) % R) + 1]]]

\* C17: for an input with even first axes H and W, averaging_merger returns
\* an array with first axes H/2 and W/2, the other axes and the element
\* type unchanged, whose pixel (i, j) depends only on the input pixels
\* (2i, 2j), (2i, 2j+1), (2i+1, 2j), (2i+1, 2j+1): it is what the merger
\* gives for that block alone.
C17_MergerShape ==
    call[1] = "averaging_merger" =>
        LET data == call[2]
            out == call[3]
        IN  /\ out.shape = <<data.shape[1] \div 2, data.shape[2] \div 2>>
                                \o SubSeq(data.shape, 3, Len(data.shape))
            /\ 2 * out.shape[1] = data.shape[1] /\ 2 * out.shape[2] = data.shape[2]
            /\ out.dtype = data.dtype
            /\ Len(out.flat) = Prod(out.shape)
            /\ \A ij \in OutPixels(data) :
                   Pixel(out, ij[1], ij[2])
                       = Pixel(averaging_merger(Block(data, ij[1], ij[2])), 0, 0)

C17_Witness ==
    /\ call[1] = "averaging_merger"
    /\ call[2].shape = <<4, 4>>
    /\ call[2].flat[7] = NaN
    /\ call[3].shape = <<2, 2>>

\* C18: with a FITS default format, the min value written with a parent
\* tile is the minimum of data_min over the children that are present and
\* have one, the max value the maximum of data_max likewise; a value is
\* None exactly when no child contributes one; for another format both are
\* None.
C18_MinMaxOfChildren ==
    call[1] = "_get_min_max_of_children" =>
        LET fmt == call[2][1]
            children == call[2][2]
            mins == {children[i][1][1] :
                        i \in {k \in 1 .. 4 : children[k] # None /\ children[k][1] # None}}
            maxs == {children[i][2][1] :
                        i \in {k \in 1 .. 4 : children[k] # None /\ children[k][2] # None}}
            min_value == call[3][1]
            max_value == call[3][2]
        IN  IF fmt = "fits"
            THEN /\ (min_value = None) <=> (mins = {})
                 /\ min_value # None =>
                        min_value[1] \in mins /\ \A m \in mins : min_value[1] <= m
                 /\ (max_value = None) <=> (maxs = {})
                 /\ max_value # None =>
                        max_value[1] \in maxs /\ \A m \in maxs : max_value[1] >= m
            ELSE min_value = None /\ max_value = None

C18_Witness ==
    /\ call[1] = "_get_min_max_of_children"
    /\ call[2] = <<"fits", << None, << <<0>>, <<5>> >>, << <<2>>, None >>, <<None, None>> >> >>
    /\ call[3] = << <<0>>, <<5>> >>

\* C19: the progress count only ever grows, by one per processed address
\* (one per iteration of the serial loop, one per done report the
\* dispatcher takes), never exceeds the precomputed total, and for an
\* unfiltered cascade is the total depth2tiles(start-1) when the cascade
\* returns, serial or parallel.
C19_Progress ==
    /\ [][/\ progress' \in {progress, progress + 1}
          /\ total' # total => cpc = "call"
          /\ progress' = progress + 1 <=>
                IF parallel > 1 THEN Cardinality(reported') = Cardinality(reported) + 1
                ELSE Len(log') = Len(log) + 1]_vars
    /\ [](/\ progress <= total
          /\ progress <= Cardinality({p \in AllPos : nproc[p] > 0})
          /\ \A p \in AllPos : nproc[p] <= 1
          /\ (cpc = "returned" /\ ~filtered /\ start >= 1) =>
                (progress = total /\ total = depth2tiles(start - 1)))

C19_Witness ==
    /\ cpc = "returned" /\ ~filtered /\ parallel > 1 /\ start = MaxStart
    /\ progress = depth2tiles(start - 1)

\* The ancestor of a tile at depth k.
AncestorAt(t, k) == Pos(k, t[2] \div Pow2(t[1] - k), t[3] \div Pow2(t[1] - k))

\* C20: get_parents(S) without get_all_ancestors is exactly the set of the
\* direct parents of the members of S; with get_all_ancestors it is exactly
\* the set of all strict ancestors of members of S, the root included.
C20_GetParents ==
    call[1] = "get_parents" =>
        LET S == call[2][1]
            get_all_ancestors == call[2][2]
            expected == UNION {{AncestorAt(t, k) :
                                  k \in IF get_all_ancestors THEN 0 .. t[1] - 1
                                        ELSE {t[1] - 1}} : t \in S}
        IN  /\ call[3] = expected
            /\ (S = {Pos(1, 0, 0), Pos(1, 1, 0)} /\ ~get_all_ancestors)
                  => call[3] = {Pos(0, 0, 0)}
            /\ (S = {Pos(7, 63, 33), Pos(7, 64, 33), Pos(7, 65, 33)} /\ get_all_ancestors)
                  => call[3] = {Pos(0, 0, 0), Pos(1, 0, 0), Pos(1, 1, 0), Pos(2, 1, 1),
                                Pos(2, 2, 1), Pos(3, 3, 2), Pos(3, 4, 2), Pos(4, 7, 4),
                                Pos(4, 8, 4), Pos(5, 15, 8), Pos(5, 16, 8), Pos(6, 31, 16),
                                Pos(6, 32, 16)}

C20_Witness ==
    /\ call[1] = "get_parents"
    /\ call[2] = <<{Pos(7, 63, 33), Pos(7, 64, 33), Pos(7, 65, 33)}, TRUE>>
    /\ Cardinality(call[3]) = 13

\* A parallel cascade that has set up its queues and the readiness map.
ParallelRunning == parallel > 1 /\ start >= 1 /\ cpc # "call"

\* The children of p whose bit the readiness map owes: those the filter
\* seeding counts as done and those whose done report the dispatcher took.
SeededChildren(p) ==
    IF filtered /\ p \in Ancestors(sel) THEN ChildSet(p) \ Selected ELSE {}

DoneChildren(p) == SeededChildren(p) \cup (ChildSet(p) \cap reported)

\* C21: in a parallel cascade a parent has a readiness entry from the
\* dispatcher step that handles the first done report of one of its
\* children (or from the filter seeding) until the step in which its mask
\* becomes 0b1111; that step removes the entry and puts the parent on the
\* ready channel, no other step does, the entry never comes back, and no
\* address is put on the ready channel twice.
C21_EntryLifecycle ==
    ParallelRunning =>
        \A p \in AllPos :
            /\ nready[p] <= 1
            /\ IF p[1] >= start - 1 THEN p \notin DOMAIN readiness
               ELSE \E f \in {SetBitsOf(0, DoneChildren(p))} :
                      IF f = 15 THEN p \notin DOMAIN readiness /\ nready[p] = 1
                      ELSE IF f = 0 THEN p \notin DOMAIN readiness /\ nready[p] = 0
                      ELSE p \in DOMAIN readiness /\ readiness[p] = f /\ nready[p] = 0

C21_Witness ==
    /\ ParallelRunning /\ ~filtered /\ start = MaxStart
    /\ Root \in DOMAIN readiness /\ readiness[Root] = 7
    /\ \E p \in Level(1) : nready[p] = 1 /\ p \notin reported

\* The strict ancestors of the members of a set, computed address by
\* address.
StrictAncestors(S) == UNION {{AncestorAt(t, k) : k \in 0 .. t[1] - 1} : t \in S}

\* C22: after _initiate_readiness_state(S, readiness) on an empty readiness,
\* S a non-empty set of addresses of one depth >= 1, every strict ancestor A
\* of a member of S has bit 2*(c.y mod 2) + (c.x mod 2) set exactly for its
\* children c that are neither in S nor an ancestor of a member of S, A has
\* no entry when it has no such child, and nothing but a strict ancestor has
\* an entry; for S = {(1,0,0), (1,1,0)} the root's mask is 0b1100.
C22_InitiateReadiness ==
    call[1] = "_initiate_readiness_state" =>
        LET S == call[2]
            rd == call[3]
            anc == StrictAncestors(S)
        IN  /\ DOMAIN rd \subseteq anc
            /\ \A A \in anc :
                  LET outside == ChildSet(A) \ (S \cup anc)
                  IN  IF outside = {} THEN A \notin DOMAIN rd
                      ELSE /\ A \in DOMAIN rd
                           /\ \A c \in ChildSet(A) :
                                 HasBit(rd[A], 2 * (c[3] % 2) + (c[2] % 2)) <=> c \in outside
                           /\ rd[A] < 16
            /\ S = {Pos(1, 0, 0), Pos(1, 1, 0)} => rd[Pos(0, 0, 0)] = 12
            /\ S = {Pos(3, 7, 7), Pos(3, 3, 1)} =>
                  /\ rd[Pos(0, 0, 0)] = 6
                  /\ rd[Pos(1, 1, 1)] = 7
                  /\ rd[Pos(1, 0, 0)] = 13
                  /\ rd[Pos(2, 3, 3)] = 7
                  /\ rd[Pos(2, 1, 0)] = 7

C22_Witness ==
    /\ call[1] = "_initiate_readiness_state"
    /\ call[2] = {Pos(3, 7, 7), Pos(3, 3, 1)}
    /\ Cardinality(DOMAIN call[3]) = 5

ToProcess ==
    IF filtered THEN Selected ELSE {p \in AllPos : p[1] < start}

\* C24: when the dispatcher of a parallel cascade without failures
\* returns, every address it had to process was put on the ready channel
\* once, taken from it and processed once by one worker, and no other
\* address was put or processed: nothing twice, nothing left on the channel.
C24_EachTakenOnce ==
    (parallel > 1 /\ start >= 1 /\ NoFault /\ cpc = "returned") =>
        /\ ready_queue = <<>>
        /\ \A p \in AllPos :
              IF p \in ToProcess
              THEN nready[p] = 1 /\ nproc[p] = 1 /\ p \in reported
              ELSE nready[p] = 0 /\ nproc[p] = 0 /\ p \notin reported
        /\ \A w \in Workers : wpc[w] \in {"exited", "unstarted"}

C24_Witness ==
    /\ parallel > 1 /\ start = MaxStart /\ ~filtered /\ NoFault
    /\ cpc = "returned"
    /\ \A p \in Level(MaxStart - 1) : nready[p] = 1 /\ nproc[p] = 1

\* C25: for every tile filter, one that selects no tile at depth start-1
\* included, a parallel cascade with start >= 1 in which nothing fails
\* eventually processes the root tile and returns, as the serial one does.
C25_FilteredParallelReturns ==
    (filtered /\ parallel > 1 /\ start >= 1 /\ NoFault /\ cpc = "call")
        ~> (cpc = "returned" /\ Processed(Root))

\* The same for the serial cascade, which does return.
C25_SerialReturns ==
    (filtered /\ parallel = 1 /\ start >= 1 /\ NoFault /\ cpc = "call")
        ~> (cpc = "returned" /\ Processed(Root))

\* A step of worker w that is not an empty poll of ready_queue.
WorkerStep(w) == WorkerGet(w) \/ WorkerProcess(w) \/ WorkerPut(w)

\* C26: the done channel holds at most 2 * parallel reports and the ready
\* channel is unbounded, and this cannot deadlock: a worker that is blocked
\* putting on a full done channel waits for a dispatcher that can take from
\* it, the dispatcher's own put on the ready channel never waits, and in
\* every state before the root is reported the dispatcher or some worker
\* can take a step (when nothing fails and there is work, a step other
\* than a poll that times out).
C26_NoDeadlock ==
    (ParallelRunning /\ cpc = "dispatch") =>
        /\ Len(done_queue) <= 2 * parallel
        /\ done_queue # <<>> => ENABLED DispatcherTake
        /\ \A w \in Workers :
              (wpc[w] = "put" /\ ~ENABLED WorkerPut(w)) => ENABLED DispatcherTake
        /\ ENABLED DispatcherTake \/ \E w \in Workers : ENABLED Worker(w)
        /\ (NoFault /\ (~filtered \/ sel # {})) =>
              ENABLED DispatcherTake \/ \E w \in Workers : ENABLED WorkerStep(w)

C26_Witness ==
    /\ ParallelRunning /\ cpc = "dispatch" /\ NoFault
    /\ Len(done_queue) = 2 * parallel
    /\ \E w \in Workers : wpc[w] = "put" /\ ~ENABLED WorkerPut(w)

\* C27: the shutdown is ordered: done_event is set only after the
\* dispatcher has taken the root's done report; a worker has exited only
\* with done_event set and after a take that found the ready channel empty;
\* the dispatcher has returned only with every worker exited.
C27_ShutdownOrder ==
    ParallelRunning =>
        /\ done_event => Root \in reported /\ cpc \in {"join", "returned"}
        /\ \A w \in Workers :
              wpc[w] = "exited" => done_event /\ ready_queue = <<>>
        /\ cpc = "returned" => AllExited

C27_Witness ==
    /\ ParallelRunning /\ cpc = "join" /\ done_event
    /\ wpc[1] = "exited" /\ wpc[2] = "get"

\* C28: in an unfiltered parallel cascade without failures, when the
\* dispatcher has just taken the root's done report the ready channel is
\* empty, the done channel is empty, and no worker is processing a tile
\* or waiting to put a report.
C28_QuiescentAtRoot ==
    (UnfilteredParallel /\ NoFault /\ cpc = "shutdown") =>
        /\ Root \in reported
        /\ ready_queue = <<>>
        /\ done_queue = <<>>
        /\ \A w \in Workers : wpc[w] \in {"get", "unstarted"}

C28_Witness ==
    /\ UnfilteredParallel /\ NoFault /\ cpc = "shutdown"
    /\ start = MaxStart /\ progress = total

\* The reports for address p that are on the done channel.
OnDone(p) == {i \in 1 .. Len(done_queue) : done_queue[i] = p}

\* C29: a worker puts a done report for every address it took, skipped
\* ones included: a processed address is held by a worker about to put it,
\* or is on the done channel, or has been taken by the dispatcher.  The
\* dispatcher treats the report of a skipped tile as any other: a parent
\* is put on the ready channel exactly when its four children are reported,
\* whatever the store holds.
C29_SkippedReported ==
    (UnfilteredParallel /\ cpc # "call") =>
        /\ \A p \in AllPos :
              Processed(p) =>
                  \/ \E w \in Workers : wpc[w] = "put" /\ wpos[w] = p
                  \/ OnDone(p) # {}
                  \/ p \in reported
        /\ \A p \in AllPos :
              p[1] < start - 1 =>
                  nready[p] = IF ChildSet(p) \subseteq reported THEN 1 ELSE 0

C29_Witness ==
    /\ UnfilteredParallel /\ start = MaxStart /\ cpc = "returned"
    /\ \A p \in AllPos : store0[p] = None /\ store[p] = None
    /\ nmerge = 0
    /\ \A p \in AllPos : p[1] < start => nready[p] = 1 /\ p \in reported

\* The tiles of depth start below (or at) address p.
Descendants(p) == {t \in Level(start) : AncestorAt(t, p[1]) = p}

\* C30: after an unfiltered cascade from depth start, serial or parallel,
\* over a store that held tiles at depth start only, a tile exists at a
\* depth d < start exactly when at least one of its descendants of depth
\* start held a tile.
C30_TileIffDescendant ==
    (~filtered /\ start >= 1 /\ NoFault /\ cpc = "returned") =>
        \A p \in AllPos :
            p[1] < start =>
                (store[p] # None <=> \E t \in Descendants(p) : store0[t] # None)

C30_Witness ==
    /\ ~filtered /\ start = MaxStart /\ NoFault /\ cpc = "returned"
    /\ parallel > 1
    /\ store[Root] # None
    /\ \E p \in Level(MaxStart - 1) : store[p] = None
    /\ \E p \in Level(MaxStart - 1) : store[p] # None

\* C31: in every reachable state of the parallel cascade every entry of
\* the readiness map holds a mask in 1 .. 14: never 0, never more than
\* 0b1111, and never 0b1111 itself (such an entry is removed, not stored),
\* whether filter seeding made the entry or the dispatcher updated it.
C31_MaskRange ==
    ParallelRunning =>
        \A p \in DOMAIN readiness : readiness[p] \in 1 .. 14

C31_Witness ==
    /\ ParallelRunning /\ filtered /\ cpc = "dispatch"
    /\ \E p \in DOMAIN readiness : p[1] = start - 2 /\ readiness[p] = 14
    /\ \E p \in DOMAIN readiness :
          /\ GetFlags(SeedReadiness(filtered, sel), p) # readiness[p]
          /\ readiness[p] > 8

\* C32: when a parallel cascade without failures has returned the
\* readiness map is empty: every entry made by filter seeding or by a done
\* report was consumed when its parent became ready.
C32_ReadinessEmptyAtReturn ==
    (parallel > 1 /\ start >= 1 /\ NoFault /\ cpc = "returned") =>
        DOMAIN readiness = {}

C32_Witness ==
    /\ parallel > 1 /\ NoFault /\ cpc = "returned"
    /\ filtered /\ start = MaxFiltStart
    /\ Cardinality(DOMAIN SeedReadiness(filtered, sel)) >= 3
    /\ DOMAIN readiness = {}

\* C33: _initiate_readiness_state terminates for every finite set S of
\* addresses of one depth d >= 0, however deep and sparse: its calls go
\* through exactly the generations d-1, ..., 0 of ancestors, the last call
\* is the one on the root's generation, and the parent of the root is
\* never taken; for an empty S the one call returns at once and leaves the
\* readiness map as it was.
C33_RecursionBottomsOut ==
    call[1] = "_initiate_readiness_state (calls)" =>
        LET S == call[2][1]
            rd == call[2][2]
            calls == call[3][1]
        IN  IF S = {}
            THEN /\ calls = << [tiles |-> {}, parents_of |-> {}] >>
                 /\ call[3][2] = rd
            ELSE \E d \in 0 .. 7 :
                   /\ \A t \in S : t[1] = d
                   /\ Len(calls) = d + 1
                   /\ \A k \in 1 .. d + 1 :
                         /\ calls[k].tiles # {}
                         /\ \A t \in calls[k].tiles : t[1] = d + 1 - k
                         /\ \A t \in calls[k].parents_of : t[1] >= 1
                         /\ k <= d => calls[k].parents_of = calls[k].tiles
                   /\ calls[d + 1].tiles = {Pos(0, 0, 0)}
                   /\ calls[d + 1].parents_of = {}

C33_Witness ==
    /\ call[1] = "_initiate_readiness_state (calls)"
    /\ call[2][1] = {Pos(7, 65, 33)}
    /\ Len(call[3][1]) = 8

\* C34: the readiness map is changed by dispatcher steps only, the seeding
\* before the workers start and the handling of a done report: every step
\* of a worker (a take from the ready channel, with or without a position,
\* the processing of a tile, a put on the done channel) leaves it as it is.
C34_ReadinessOwnedByDispatcher ==
    [][ /\ (\E w \in Workers : Worker(w)) => readiness' = readiness
        /\ readiness' # readiness => CascadeImages \/ DispatcherTake ]_vars

C34_Witness ==
    /\ ParallelRunning /\ cpc = "dispatch"
    /\ DOMAIN readiness # {}
    /\ reported # {}
    /\ \E w \in Workers : wpc[w] = "put"
    /\ \E w \in Workers : wpc[w] = "process"

\* C35: before any worker is started, an unfiltered parallel cascade has
\* put on the ready channel exactly the 4^(start-1) addresses of depth
\* start-1, each once, and no address of another depth; the readiness map
\* is empty then.
C35_UnfilteredSeeding ==
    (UnfilteredParallel /\ cpc = "spawn") =>
        /\ Len(ready_queue) = 4 ^ (start - 1)
        /\ \A p \in AllPos :
              Cardinality({i \in 1 .. Len(ready_queue) : ready_queue[i] = p})
                  = IF p[1] = start - 1 THEN 1 ELSE 0
        /\ \A i \in 1 .. Len(ready_queue) : ready_queue[i] \in Level(start - 1)
        /\ DOMAIN readiness = {}
        /\ \A w \in Workers : wpc[w] = "unstarted"

C35_Witness ==
    /\ UnfilteredParallel /\ cpc = "spawn" /\ start = MaxStart
    /\ Len(ready_queue) = 4 ^ (MaxStart - 1)

\* The child indices whose quadrant in table T holds the buffer pixel of
\* row r and column c.
Covering(T, r, c) ==
    {i \in 1 .. 4 : r \in SliceRange(T[i][1]) /\ c \in SliceRange(T[i][2])}

\* C36: each of the two quadrant tables gives the four child indices four
\* distinct quadrants that cover the combined buffer without overlap; the
\* two tables differ exactly by the exchange of the top and bottom halves,
\* left and right kept; the serial cascade and a worker pick the same
\* table for the same store, the exchanged one exactly when the vertical
\* parity sign is +1.
C36_QuadrantTables ==
    call[1] = "slices" =>
        /\ \A T \in {SLICES_MATCHING_PARITY, SLICES_OPPOSITE_PARITY} :
              /\ Len(T) = 4
              /\ \A i, j \in 1 .. 4 : i # j => T[i] # T[j]
              /\ \A r \in 0 .. 511, c \in 0 .. 511 : Cardinality(Covering(T, r, c)) = 1
        /\ \A i \in 1 .. 4 :
              /\ SLICES_OPPOSITE_PARITY[i][1] = 1 - SLICES_MATCHING_PARITY[i][1]
              /\ SLICES_OPPOSITE_PARITY[i][2] = SLICES_MATCHING_PARITY[i][2]
        /\ call[3][1] = call[3][2]
        /\ call[3][1] \in {SLICES_MATCHING_PARITY, SLICES_OPPOSITE_PARITY}
        /\ call[3][1] = SLICES_OPPOSITE_PARITY <=> call[2] = 1

C36_Witness ==
    /\ call[1] = "slices" /\ call[2] = 1
    /\ call[3][2] = << <<1, 0>>, <<1, 1>>, <<0, 0>>, <<0, 1>> >>

\* C37: after a cascade over a FITS store in which every present tile of
\* depth start carries data_min <= data_max and which returns each tile
\* with the min and max written with it, every written tile of depth
\* < start carries min <= max, and the root's min and max are the least
\* data_min and the greatest data_max of the present tiles of depth start.
C37_MinMaxPropagates ==
    call[1] = "cascade_images (min/max)" =>
        LET s == call[2][1]
            st0 == call[2][2]
            st == call[3]
            present == {t \in Level(s) : st0[t] # None}
            mins == {st0[t][1][1] : t \in present}
            maxs == {st0[t][2][1] : t \in present}
        IN  (\A t \in present :
                /\ st0[t][1] # None /\ st0[t][2] # None
                /\ st0[t][1][1] <= st0[t][2][1])
            =>
            /\ \A p \in DOMAIN st :
                  (p[1] < s /\ st[p] # None) =>
                      /\ st[p][1] # None /\ st[p][2] # None
                      /\ st[p][1][1] <= st[p][2][1]
            /\ present # {} =>
                  /\ st[Pos(0, 0, 0)] # None
                  /\ st[Pos(0, 0, 0)][1] = <<CHOOSE m \in mins : \A v \in mins : m <= v>>
                  /\ st[Pos(0, 0, 0)][2] = <<CHOOSE m \in maxs : \A v \in maxs : m >= v>>
            /\ present = {} => st = st0

C37_Witness ==
    /\ call[1] = "cascade_images (min/max)"
    /\ call[2][1] = MaxStart
    /\ call[3][Pos(0, 0, 0)] = << <<0>>, <<9>> >>
    /\ \E p \in Level(MaxStart - 1) : call[3][p] = << <<1>>, <<7>> >>
    /\ \E p \in Level(MaxStart - 1) : call[3][p] = << <<0>>, <<9>> >>

\* C38: in the parallel float-to-RGBA transform every position put on the
\* queue is taken and transformed by a worker: no worker has exited while
\* a position is on the queue, and when _float_to_rgba_parallel has
\* returned every position of the pyramid has been transformed.
C38_AllTransformed ==
    /\ \A w \in Workers : xf.wpc[w] = "exited" => xf.queue = <<>>
    /\ xf.pc = "returned" => \A p \in DOMAIN xf.ndone : xf.ndone[p] = 1

IsIndex(p) == p[Len(p)] = "index.wtml"

\* p lies in directory d or below it.
Under(p, d) == Len(p) > Len(d) /\ SubSeq(p, 1, Len(d)) = d

\* C39: in publish_todos, index.wtml of a directory is put after every
\* other file of the directory, and the files of a subdirectory are put
\* before any file of its parent; so at every point, after a failed put
\* too, index.wtml of a directory is in the store only if every other file
\* under that directory is.
C39_IndexPutLast ==
    /\ \A i, j \in 1 .. Len(pub.log) :
          i < j =>
              /\ ~(IsIndex(pub.log[i]) /\ DirOf(pub.log[j]) = DirOf(pub.log[i]))
              /\ ~Under(pub.log[j], DirOf(pub.log[i]))
                  \/ DirOf(pub.log[j]) = DirOf(pub.log[i])
    /\ \A p \in pub.store :
          IsIndex(p) => \A q \in pub.tree : Under(q, DirOf(p)) => q \in pub.store

C39_Witness ==
    /\ pub.pc = "raised"
    /\ pub.tree = FileUniverse
    /\ <<"a", "0", "index.wtml">> \in pub.store
    /\ <<"a", "t.jpg">> \in pub.store
    /\ <<"a", "index.wtml">> \notin pub.store
    /\ <<"a", "u.jpg">> \notin pub.store

====
